---- MODULE Spec2Model ----
(***************************************************************************)
(* A model of the impact-calculation pipeline of african_lca_backend:      *)
(* the production engine (AfricanLCAEngine with its LCICalculator) and the *)
(* processing engine (ProcessingLCAEngine).                                *)
(*                                                                         *)
(* Numbers.  Every f64 of the program is a fixed-point integer with SCALE  *)
(* units per 1.0 (1.4 kg CO2-eq is 14000); products and quotients round    *)
(* towards minus infinity.  Endpoint values and the single score have      *)
(* their own units, stated where they are computed.                        *)
(*                                                                         *)
(* Strings.  A String is a sequence of tokens; format! concatenates.  An   *)
(* Option is <<>> (None) or <<x>> (Some(x)).  A HashMap is a function on   *)
(* the set of its keys.                                                    *)
(***************************************************************************)
EXTENDS Integers, Sequences, FiniteSets, TLC

VARIABLES
  methodology,          \* AfricanLCAEngine.methodology
  impact_factors,       \* AfricanLCAEngine.impact_factors
  regional_factors,     \* AfricanLCAEngine.regional_factors
  climate_adjustments,  \* AfricanLCAEngine.climate_adjustments
  processing_engine,    \* the ProcessingLCAEngine: its maps and methodology
  lci_inventory,        \* AfricanLCAEngine.lci_calculator.inventory
  hash_seed,            \* the RandomState of the calculator's inventory map
  prior_inventory,      \* the inventory calculate_inventory was entered with
  the_assessment,       \* the Assessment handed to perform_assessment
  pc,                   \* position inside perform_(comprehensive_)assessment
  entry,                \* which of the two functions runs
  midpoint_impacts,     \* local of the running function
  breakdown_by_food,    \* local of the running function
  endpoint_impacts,     \* local of the running function
  history,              \* the last completed production run: input, seed, results
  best                  \* the last find_best_factor call: its arguments and its result

engineVars == <<methodology, impact_factors, regional_factors, climate_adjustments,
               processing_engine>>
runVars == <<lci_inventory, hash_seed, prior_inventory, the_assessment, pc, entry, midpoint_impacts,
             breakdown_by_food, endpoint_impacts, history>>
vars == <<engineVars, runVars, best>>

-----------------------------------------------------------------------------
(* Fixed-point arithmetic *)

SCALE == 10 ^ 4

Abs(x) == IF x < 0 THEN -x ELSE x
Max(a, b) == IF a >= b THEN a ELSE b
Min(a, b) == IF a <= b THEN a ELSE b

\* <<floor(r * n / d), (r * n) % d>> for 0 <= r < d and n >= 0, one decimal
\* digit of n at a time so that no intermediate product leaves 32 bits.
RECURSIVE MulRem(_, _, _)
MulRem(r, n, d) ==
  IF n = 0 THEN <<0, 0>>
  ELSE LET h == MulRem(r, n \div 10, d)
           t == 10 * h[2] + r * (n % 10)
       IN <<10 * h[1] + (t \div d), t % d>>

\* floor(a * n / d) for n >= 0, d > 0
MulDiv(a, n, d) == (a \div d) * n + MulRem(a % d, n, d)[1]

\* a * b and a / b of two fixed-point numbers
FMul(a, b) == IF b >= 0 THEN MulDiv(a, b, SCALE) ELSE -MulDiv(a, -b, SCALE)
FDiv(a, b) == IF b > 0 THEN MulDiv(a, SCALE, b) ELSE -MulDiv(a, SCALE, -b)

\* a fixed-point number from an integer
Fx(n) == n * SCALE

-----------------------------------------------------------------------------
(* Strings and options *)

None == <<>>
Some(x) == <<x>>
IsSome(o) == o # <<>>
Unwrap(o) == o[1]

\* a word of text, and a number printed into text
W(s) == [w |-> s, n |-> 0]
N(x) == [w |-> "#", n |-> x]
Str(s) == <<W(s)>>

\* the text of a name read from a data file: an underscore inside it is the same
\* character as the separator of format!("{}_{}", ..)
Text(s) ==
  CASE s = "Rice_Global warming" -> <<W("Rice"), W("_"), W("Global warming")>>
    [] OTHER -> Str(s)

\* str::contains on token sequences
Contains(s, pat) ==
  \E i \in 1..(Len(s) - Len(pat) + 1) : SubSeq(s, i, i + Len(pat) - 1) = pat

Range(f) == {f[k] : k \in DOMAIN f}

-----------------------------------------------------------------------------
(* Domain types of production/models.rs *)

\* impl Debug for FoodCategory, Country: the variant's name
DebugStr(variant) == Str(variant)

FoodItem(name, quantity_kg, category, crop_type, production_system, seasonal_factor, area_allocated) ==
  [name |-> name, quantity_kg |-> quantity_kg, category |-> category,
   crop_type |-> crop_type, production_system |-> production_system,
   seasonal_factor |-> seasonal_factor, area_allocated |-> area_allocated]

PedigreeScore(r, c, t, g, x) ==
  [reliability |-> r, completeness |-> c, temporal_correlation |-> t,
   geographical_correlation |-> g, technological_correlation |-> x]

ImpactFactor(food_category, country, crop_type, impact_category, value_per_kg, source, uncertainty_range, pedigree_score) ==
  [food_category |-> food_category, country |-> country, crop_type |-> crop_type,
   impact_category |-> impact_category, value_per_kg |-> value_per_kg,
   source |-> source, uncertainty_range |-> uncertainty_range,
   pedigree_score |-> pedigree_score]

-----------------------------------------------------------------------------
(* FactorRepository: AfricanLCAEngine.impact_factors *)

create_factor_key(factor) ==
  IF IsSome(factor.crop_type)
  THEN DebugStr(factor.food_category) \o Str("_") \o DebugStr(factor.country)
         \o Str("_") \o Unwrap(factor.crop_type) \o Str("_")
         \o Text(factor.impact_category)
  ELSE DebugStr(factor.food_category) \o Str("_") \o DebugStr(factor.country)
         \o Str("_") \o Text(factor.impact_category)

\* HashMap::insert: the value of an existing key is replaced
MapInsert(map, key, value) ==
  [k \in DOMAIN map \cup {key} |-> IF k = key THEN value ELSE map[k]]

\* a variant that keeps the factor a key already holds (entry().or_insert)
RECURSIVE load_impact_factors_keep_first(_, _)
load_impact_factors_keep_first(map, factors) ==
  IF factors = <<>> THEN map
  ELSE load_impact_factors_keep_first(
         IF create_factor_key(Head(factors)) \in DOMAIN map THEN map
         ELSE MapInsert(map, create_factor_key(Head(factors)), Head(factors)),
         Tail(factors))

RECURSIVE load_impact_factors(_, _)
load_impact_factors(map, factors) ==
  IF factors = <<>> THEN map
  ELSE load_impact_factors(
         MapInsert(map, create_factor_key(Head(factors)), Head(factors)),
         Tail(factors))

\* the hierarchy with the country-only level before the country+crop level
build_lookup_hierarchy_country_first(food, country) ==
  <<DebugStr(food.category) \o Str("_") \o DebugStr(country)>>
  \o (IF IsSome(food.crop_type)
      THEN <<DebugStr(food.category) \o Str("_") \o DebugStr(country) \o Str("_")
               \o Unwrap(food.crop_type)>>
      ELSE <<>>)
  \o (IF IsSome(food.crop_type)
      THEN <<DebugStr(food.category) \o Str("_") \o Str("Global") \o Str("_")
               \o Unwrap(food.crop_type)>>
      ELSE <<>>)
  \o <<DebugStr(food.category) \o Str("_") \o Str("Global")>>

build_lookup_hierarchy(food, country) ==
  (IF IsSome(food.crop_type)
   THEN <<DebugStr(food.category) \o Str("_") \o DebugStr(country) \o Str("_")
            \o Unwrap(food.crop_type)>>
   ELSE <<>>)
  \o <<DebugStr(food.category) \o Str("_") \o DebugStr(country)>>
  \o (IF IsSome(food.crop_type)
      THEN <<DebugStr(food.category) \o Str("_") \o Str("Global") \o Str("_")
               \o Unwrap(food.crop_type)>>
      ELSE <<>>)
  \o <<DebugStr(food.category) \o Str("_") \o Str("Global")>>

DefaultTable ==
     "Cereals" :> ("Global warming" :> 14000 @@ "Water consumption" :> 16000 @@ "Land use" :> 28000 @@ "Terrestrial acidification" :> 120 @@ "Freshwater eutrophication" :> 30 @@ "Marine eutrophication" :> 80 @@ "Biodiversity loss" :> 6000 @@ "Soil degradation" :> 1500 @@ "Particulate matter formation" :> 80 @@ "Photochemical oxidation" :> 40 @@ "Fossil depletion" :> 200 @@ "Mineral depletion" :> 10)
  @@ "Legumes" :> ("Global warming" :> 10000 @@ "Water consumption" :> 40000 @@ "Land use" :> 25000 @@ "Terrestrial acidification" :> 80 @@ "Freshwater eutrophication" :> 20 @@ "Marine eutrophication" :> 50 @@ "Biodiversity loss" :> 4000 @@ "Soil degradation" :> 800 @@ "Particulate matter formation" :> 60 @@ "Photochemical oxidation" :> 30 @@ "Fossil depletion" :> 150 @@ "Mineral depletion" :> 8)
  @@ "Vegetables" :> ("Global warming" :> 5000 @@ "Water consumption" :> 4000 @@ "Land use" :> 3000 @@ "Terrestrial acidification" :> 40 @@ "Freshwater eutrophication" :> 10 @@ "Marine eutrophication" :> 30 @@ "Biodiversity loss" :> 2000 @@ "Soil degradation" :> 500 @@ "Particulate matter formation" :> 30 @@ "Photochemical oxidation" :> 20 @@ "Fossil depletion" :> 80 @@ "Mineral depletion" :> 4)
  @@ "Fruits" :> ("Global warming" :> 6000 @@ "Water consumption" :> 8000 @@ "Land use" :> 4000 @@ "Terrestrial acidification" :> 50 @@ "Freshwater eutrophication" :> 10 @@ "Marine eutrophication" :> 40 @@ "Biodiversity loss" :> 3000 @@ "Soil degradation" :> 600 @@ "Particulate matter formation" :> 40 @@ "Photochemical oxidation" :> 20 @@ "Fossil depletion" :> 100 @@ "Mineral depletion" :> 5)
  @@ "Meat" :> ("Global warming" :> 250000 @@ "Water consumption" :> 150000 @@ "Land use" :> 200000 @@ "Terrestrial acidification" :> 2000 @@ "Freshwater eutrophication" :> 500 @@ "Marine eutrophication" :> 1500 @@ "Biodiversity loss" :> 80000 @@ "Soil degradation" :> 25000 @@ "Particulate matter formation" :> 1500 @@ "Photochemical oxidation" :> 800 @@ "Fossil depletion" :> 4000 @@ "Mineral depletion" :> 200)
  @@ "Poultry" :> ("Global warming" :> 60000 @@ "Water consumption" :> 40000 @@ "Land use" :> 70000 @@ "Terrestrial acidification" :> 800 @@ "Freshwater eutrophication" :> 200 @@ "Marine eutrophication" :> 600 @@ "Biodiversity loss" :> 25000 @@ "Soil degradation" :> 8000 @@ "Particulate matter formation" :> 500 @@ "Photochemical oxidation" :> 300 @@ "Fossil depletion" :> 1500 @@ "Mineral depletion" :> 80)
  @@ "Fish" :> ("Global warming" :> 40000 @@ "Water consumption" :> 50 @@ "Land use" :> 30000 @@ "Terrestrial acidification" :> 300 @@ "Freshwater eutrophication" :> 80 @@ "Marine eutrophication" :> 1500 @@ "Biodiversity loss" :> 15000 @@ "Soil degradation" :> 2000 @@ "Particulate matter formation" :> 250 @@ "Photochemical oxidation" :> 150 @@ "Fossil depletion" :> 800 @@ "Mineral depletion" :> 30)
  @@ "Dairy" :> ("Global warming" :> 32000 @@ "Water consumption" :> 50000 @@ "Land use" :> 40000 @@ "Terrestrial acidification" :> 400 @@ "Freshwater eutrophication" :> 100 @@ "Marine eutrophication" :> 300 @@ "Biodiversity loss" :> 18000 @@ "Soil degradation" :> 6000 @@ "Particulate matter formation" :> 300 @@ "Photochemical oxidation" :> 200 @@ "Fossil depletion" :> 800 @@ "Mineral depletion" :> 40)
  @@ "Roots" :> ("Global warming" :> 3000 @@ "Water consumption" :> 6000 @@ "Land use" :> 10000 @@ "Terrestrial acidification" :> 20 @@ "Freshwater eutrophication" :> 5 @@ "Marine eutrophication" :> 20 @@ "Biodiversity loss" :> 1500 @@ "Soil degradation" :> 300 @@ "Particulate matter formation" :> 20 @@ "Photochemical oxidation" :> 10 @@ "Fossil depletion" :> 50 @@ "Mineral depletion" :> 2)

CerealAverages ==
  "Global warming" :> 14000 @@ "Water consumption" :> 16000 @@ "Land use" :> 28000 @@ "Terrestrial acidification" :> 120 @@ "Freshwater eutrophication" :> 30 @@ "Marine eutrophication" :> 80 @@ "Biodiversity loss" :> 6000 @@ "Soil degradation" :> 1500 @@ "Particulate matter formation" :> 80 @@ "Photochemical oxidation" :> 40 @@ "Fossil depletion" :> 200 @@ "Mineral depletion" :> 10

get_default_impact_factor(category, impact) ==
  IF category \in DOMAIN DefaultTable /\ impact \in DOMAIN DefaultTable[category]
  THEN DefaultTable[category][impact]
  ELSE IF impact \in DOMAIN CerealAverages THEN CerealAverages[impact]
  ELSE 1000

DefaultEstimateSource ==
  <<W("Default"), W("estimate"), W("-"), W("high"), W("uncertainty")>>

\* the result is the tuple (value, source, uncertainty range, pedigree)
RECURSIVE find_in_hierarchy(_, _, _)
find_in_hierarchy(factors, category, hierarchy) ==
  IF hierarchy = <<>> THEN None
  ELSE LET full_key == Head(hierarchy) \o Str("_") \o Text(category)
       IN IF full_key \in DOMAIN factors
          THEN Some(<<factors[full_key].value_per_kg, factors[full_key].source,
                      factors[full_key].uncertainty_range,
                      factors[full_key].pedigree_score>>)
          ELSE find_in_hierarchy(factors, category, Tail(hierarchy))

\* a fallback that reports the default value as its own lower bound
find_best_factor_narrow_range(factors, food, category, hierarchy) ==
  LET hit == find_in_hierarchy(factors, category, hierarchy)
      default_value == get_default_impact_factor(food.category, category)
  IN IF IsSome(hit) THEN Unwrap(hit)
     ELSE <<default_value, DefaultEstimateSource,
            <<default_value, FMul(default_value, 20000)>>,
            PedigreeScore(5, 5, 5, 5, 5)>>

find_best_factor(factors, food, category, hierarchy) ==
  LET hit == find_in_hierarchy(factors, category, hierarchy)
      default_value == get_default_impact_factor(food.category, category)
  IN IF IsSome(hit) THEN Unwrap(hit)
     ELSE <<default_value, DefaultEstimateSource,
            <<FMul(default_value, 5000), FMul(default_value, 20000)>>,
            PedigreeScore(5, 5, 5, 5, 5)>>


-----------------------------------------------------------------------------
(* Factor lookup: load_impact_factors and find_best_factor on one engine *)

MaxLoaded == 3

LookupCategories == {"Cereals", "Meat"}
LookupCountries == {"Ghana", "Global"}
LookupCrops == {None, Some(Str("Rice"))}
LookupImpacts == {"Global warming", "Water scarcity"}

\* two data sets a factor can come from: value, source, range and pedigree differ
FactorVariant(v) ==
  IF v = 1
  THEN [value |-> Fx(2), source |-> <<W("Ecoinvent"), W("v3.9")>>,
        range |-> <<Fx(1), Fx(3)>>, pedigree |-> PedigreeScore(2, 2, 2, 2, 2)]
  ELSE [value |-> Fx(7), source |-> <<W("FAO"), W("field"), W("estimate")>>,
        range |-> <<Fx(5), Fx(9)>>, pedigree |-> PedigreeScore(3, 3, 4, 3, 3)]

LookupFactors ==
  {ImpactFactor(fc, co, cr, ic, FactorVariant(v).value, FactorVariant(v).source,
                FactorVariant(v).range, FactorVariant(v).pedigree) :
     fc \in LookupCategories, co \in LookupCountries, cr \in LookupCrops,
     ic \in LookupImpacts, v \in {1, 2}}

LookupFoods ==
  {FoodItem(Str("item"), Fx(1), "Cereals", cr, None, None, None) : cr \in LookupCrops}

NoCall == [called |-> FALSE]

Methodologies ==
  {[normalization_method |-> Some("AfricanContext"),
    weighting_method |-> Some("AfricanPriorities")],
   [normalization_method |-> None, weighting_method |-> None]}

\* the methodology main.rs constructs its engines with
MainMethodology ==
  [normalization_method |-> Some("AfricanContext"),
   weighting_method |-> Some("AfricanPriorities")]

\* ProcessingLCAEngine::new
ProcessingLCAEngine(engine_methodology) ==
  [impact_factors |-> <<>>, benchmarks |-> <<>>, regional_factors |-> <<>>,
   methodology |-> engine_methodology]

InitProcessingEngine == processing_engine = ProcessingLCAEngine(MainMethodology)

InitEngine ==
  /\ methodology = MainMethodology
  /\ impact_factors = <<>>
  /\ regional_factors = <<>>
  /\ climate_adjustments = <<>>

NoAssessment == [results |-> None]

InitRun ==
  /\ lci_inventory = <<>>
  /\ hash_seed = 1
  /\ prior_inventory = <<>>
  /\ the_assessment = NoAssessment
  /\ pc = "idle"
  /\ entry = "none"
  /\ midpoint_impacts = <<>>
  /\ breakdown_by_food = <<>>
  /\ endpoint_impacts = <<>>
  /\ history = <<>>

InitLookup ==
  /\ InitEngine
  /\ InitProcessingEngine
  /\ InitRun
  /\ best = NoCall

LoadImpactFactors ==
  /\ Cardinality(DOMAIN impact_factors) < MaxLoaded
  /\ \E f \in LookupFactors :
       impact_factors' = load_impact_factors(impact_factors, <<f>>)
  /\ best' = NoCall
  /\ UNCHANGED <<methodology, regional_factors, climate_adjustments, processing_engine,
                 runVars>>

FindBestFactor ==
  /\ \E food \in LookupFoods, country \in {"Ghana", "Nigeria", "Global"},
        category \in LookupImpacts :
       best' = [called |-> TRUE, food |-> food, country |-> country,
                category |-> category,
                result |-> find_best_factor(impact_factors, food, category,
                             build_lookup_hierarchy(food, country))]
  /\ UNCHANGED <<engineVars, runVars>>

NextLookup == LoadImpactFactors \/ FindBestFactor

SpecLookup == InitLookup /\ [][NextLookup]_vars

\* The four levels of the lookup, most specific first, as (country, crop) pairs;
\* the crop levels exist only for an item that names a crop.
LookupLevels(food, country) ==
  (IF IsSome(food.crop_type) THEN <<[country |-> country, crop |-> food.crop_type]>>
   ELSE <<>>)
  \o <<[country |-> country, crop |-> None]>>
  \o (IF IsSome(food.crop_type) THEN <<[country |-> "Global", crop |-> food.crop_type]>>
      ELSE <<>>)
  \o <<[country |-> "Global", crop |-> None]>>

\* the stored factors that are an entry of the level for the item and category
LevelEntries(level, food, category) ==
  {f \in Range(impact_factors) :
     /\ f.food_category = food.category
     /\ f.country = level.country
     /\ f.crop_type = level.crop
     /\ f.impact_category = category}

FactorTuple(f) == <<f.value_per_kg, f.source, f.uncertainty_range, f.pedigree_score>>

FirstLevelWithEntry(food, country, category) ==
  LET levels == LookupLevels(food, country)
      hits == {i \in 1..Len(levels) : LevelEntries(levels[i], food, category) # {}}
  IN IF hits = {} THEN 0 ELSE CHOOSE i \in hits : \A j \in hits : i <= j

-----------------------------------------------------------------------------
(* production/lci.rs: the life cycle inventory calculator *)

InventoryItem(substance, quantity, unit, compartment, source) ==
  [substance |-> substance, quantity |-> quantity, unit |-> unit,
   compartment |-> compartment, source |-> source]

\* substances; the words str::contains looks for are tokens of their own
SubstanceN2O == <<W("Dinitrogen monoxide ("), W("N2O"), W(")")>>
SubstanceN2OIndirect == SubstanceN2O \o Str("- indirect")
SubstanceCO2 == Str("Carbon dioxide (CO2)")
SubstanceCO2Eq == Str("Carbon dioxide (CO2) equivalent")
SubstanceCH4 == Str("Methane (CH4)")
SubstanceNitrate == <<W("Nitrate"), W("(NO3-)")>>
SubstanceWater == Str("Water")
SubstanceLand == <<W("Land occupation"), W(", annual crop")>>

\* f64 Display of a number inside a formatted string
Num(x) == <<N(x)>>

\* {:.1}: one decimal, rounded to nearest
Round1(x) == ((x + SCALE \div 20) \div (SCALE \div 10)) * (SCALE \div 10)

\* {:.0}: no decimals, rounded to nearest
Round0(x) == ((x + SCALE \div 2) \div SCALE) * SCALE

\* a variant that replaces an entry already there (HashMap::insert alone)
add_inventory_item_replace(inv, item) ==
  MapInsert(inv, item.substance \o Str("_") \o DebugStr(item.compartment), item)

add_inventory_item(inv, item) ==
  LET key == item.substance \o Str("_") \o DebugStr(item.compartment)
  IN IF key \in DOMAIN inv
     THEN [inv EXCEPT ![key] =
             [@ EXCEPT !.quantity = @ + item.quantity,
                       !.source = @ \o Str(", ") \o item.source]]
     ELSE MapInsert(inv, key, item)

RECURSIVE add_inventory_items(_, _)
add_inventory_items(inv, items) ==
  IF items = <<>> THEN inv
  ELSE add_inventory_items(add_inventory_item(inv, Head(items)), Tail(items))

\* foods.iter().filter_map(|f| f.area_allocated).sum()
RECURSIVE total_area_ha(_)
total_area_ha(foods) ==
  IF foods = <<>> THEN 0
  ELSE (IF IsSome(Head(foods).area_allocated) THEN Unwrap(Head(foods).area_allocated)
        ELSE 0) + total_area_ha(Tail(foods))

\* str::parse::<f64> of one part of an "N-P-K" ratio: only a number token parses
ParseF64(part) == IF part.w = "#" THEN Some(part.n) ELSE None

get_nitrogen_content(fertilizer_type, npk_ratio) ==
  CASE fertilizer_type = "Urea" -> 4600
    [] fertilizer_type \in {"Diammonium Phosphate (DAP)", "DAP"} -> 1800
    [] fertilizer_type \in {"NPK Compound", "NPK"} ->
         IF IsSome(npk_ratio) /\ Len(Unwrap(npk_ratio)) >= 1
              /\ IsSome(ParseF64(Unwrap(npk_ratio)[1]))
         THEN Unwrap(ParseF64(Unwrap(npk_ratio)[1])) \div 100
         ELSE 1500
    [] fertilizer_type = "Ammonium Sulfate" -> 2100
    [] fertilizer_type \in {"Calcium Ammonium Nitrate", "CAN"} -> 2700
    [] OTHER -> 1000

\* the inventory items one fertilizer application adds, in the order of the code
fertilizer_application_items(app, area) ==
  LET n_content == get_nitrogen_content(app.fertilizer_type, app.npk_ratio)
      n_applied_per_ha == FMul(app.application_rate, n_content)
      total_n_applied == FMul(n_applied_per_ha, area) * app.applications_per_season
      n2o_direct == MulDiv(FMul(total_n_applied, 100), 44, 28)
      total_fertilizer_kg == FMul(app.application_rate, area) * app.applications_per_season
      production_co2 ==
        CASE app.fertilizer_type = "Urea" -> FMul(total_fertilizer_kg, 12000)
          [] app.fertilizer_type \in {"NPK Compound", "NPK"} ->
               FMul(total_fertilizer_kg, 15000)
          [] OTHER -> total_fertilizer_kg
      parts == IF app.fertilizer_type \in {"NPK Compound", "NPK"} /\ IsSome(app.npk_ratio)
                  /\ Len(Unwrap(app.npk_ratio)) = 3
               THEN Unwrap(app.npk_ratio) ELSE <<>>
      phosphate ==
        IF parts # <<>> /\ IsSome(ParseF64(parts[2]))
        THEN <<InventoryItem(<<W("Phosphate"), W("rock")>>,
                 FMul(FMul(total_fertilizer_kg, Unwrap(ParseF64(parts[2])) \div 100), 3000),
                 Str("kg Fe-eq"), "Resource",
                 <<W("Phosphate mining for"), W(app.fertilizer_type), W("production")>>)>>
        ELSE <<>>
      potash ==
        IF parts # <<>> /\ IsSome(ParseF64(parts[3]))
        THEN <<InventoryItem(Str("Potash"),
                 FMul(FMul(total_fertilizer_kg, Unwrap(ParseF64(parts[3])) \div 100), 2000),
                 Str("kg Fe-eq"), "Resource",
                 <<W("Potash mining for"), W(app.fertilizer_type), W("production")>>)>>
        ELSE <<>>
      n_volatilized_leached == FMul(total_n_applied, 2000)
      n2o_indirect == MulDiv(FMul(n_volatilized_leached, 100), 44, 28)
      no3_leached == MulDiv(n_volatilized_leached, 62, 14)
  IN <<InventoryItem(SubstanceN2O, n2o_direct, Str("kg"), "Air",
         <<W("Direct N2O emissions from"), W(app.fertilizer_type), W("application")>>),
       InventoryItem(SubstanceCO2, production_co2, Str("kg"), "Air",
         <<W("Production and transport of"), W(app.fertilizer_type)>>)>>
     \o phosphate \o potash
     \o <<InventoryItem(SubstanceN2OIndirect, n2o_indirect, Str("kg"), "Air",
            <<W("Indirect N2O emissions from"), W(app.fertilizer_type),
              W("("), W("volatilization/leaching"), W(")")>>),
          InventoryItem(SubstanceNitrate, no3_leached, Str("kg"), "Water",
            <<W("Nitrate leaching from"), W(app.fertilizer_type), W("application")>>)>>

RECURSIVE fertilizer_items(_, _)
fertilizer_items(apps, area) ==
  IF apps = <<>> THEN <<>>
  ELSE fertilizer_application_items(Head(apps), area) \o fertilizer_items(Tail(apps), area)

\* a variant per hectare: the total area is left out of the amounts
calculate_fertilizer_emissions_per_ha(inv, fertilization, foods) ==
  IF ~fertilization.uses_fertilizers THEN inv
  ELSE IF total_area_ha(foods) = 0 THEN inv
  ELSE add_inventory_items(inv,
         fertilizer_items(fertilization.fertilizer_applications, Fx(1)))

calculate_fertilizer_emissions(inv, fertilization, foods) ==
  IF ~fertilization.uses_fertilizers THEN inv
  ELSE IF total_area_ha(foods) = 0 THEN inv
  ELSE add_inventory_items(inv,
         fertilizer_items(fertilization.fertilizer_applications, total_area_ha(foods)))


\* match assessment.country for the grid electricity emission factor
electricity_ef(country) ==
  CASE country = "Ghana" -> 4500 [] country = "Nigeria" -> 5800 [] OTHER -> 5000

\* the words of a fuel type that str::contains can find inside it
fuel_type_words(fuel_type) ==
  IF fuel_type = "Petrol/Gasoline" THEN <<W("Petrol"), W("/Gasoline")>>
  ELSE <<W(fuel_type)>>

fuel_item(fuel) ==
  LET annual_consumption_l == fuel.monthly_consumption * 12
      emission_factor ==
        CASE fuel.fuel_type = "Diesel" -> 26800
          [] fuel.fuel_type \in {"Petrol", "Petrol/Gasoline", "Gasoline"} -> 23100
          [] OTHER -> 25000
  IN InventoryItem(SubstanceCO2, FMul(annual_consumption_l, emission_factor),
       Str("kg"), "Air",
       fuel_type_words(fuel.fuel_type) \o Str("consumption:")
         \o Num(fuel.monthly_consumption)
         \o <<W("L/month"), W("(")>> \o Num(Round1(annual_consumption_l))
         \o <<W("L/year"), W(")")>>)

RECURSIVE fuel_items(_)
fuel_items(fuels) ==
  IF fuels = <<>> THEN <<>> ELSE <<fuel_item(Head(fuels))>> \o fuel_items(Tail(fuels))

\* energy_type is a sequence of words; contains("Electricity") || contains("Grid")
RECURSIVE electricity_items(_, _)
electricity_items(sources, country) ==
  IF sources = <<>> THEN <<>>
  ELSE LET energy == Head(sources)
           annual_consumption_kwh == energy.monthly_consumption * 12
       IN (IF Contains(energy.energy_type, Str("Electricity"))
               \/ Contains(energy.energy_type, Str("Grid"))
           THEN <<InventoryItem(SubstanceCO2,
                    FMul(annual_consumption_kwh, electricity_ef(country)),
                    Str("kg"), "Air",
                    energy.energy_type \o Str("consumption:")
                      \o Num(energy.monthly_consumption) \o <<W("kWh/month"), W("(")>>
                      \o Num(Round1(annual_consumption_kwh))
                      \o <<W("kWh/year"), W(")"), W("for"), W(energy.primary_use)>>)>>
           ELSE <<>>)
          \o electricity_items(Tail(sources), country)

calculate_energy_emissions(inv, assessment) ==
  IF IsSome(assessment.equipment_energy)
  THEN add_inventory_items(inv,
         fuel_items(Unwrap(assessment.equipment_energy).fuel_consumption)
         \o electricity_items(Unwrap(assessment.equipment_energy).energy_sources,
                              assessment.country))
  ELSE LET area == total_area_ha(assessment.foods)
           estimated_diesel_l_per_year == area * 80
           estimated_electricity_kwh == area * 200
       IN IF area = 0 THEN inv
          ELSE add_inventory_items(inv,
                 <<InventoryItem(SubstanceCO2, FMul(estimated_diesel_l_per_year, 26800),
                     Str("kg"), "Air",
                     <<W("Diesel"), W("consumption for farm operations"), W("("), W("ESTIMATED:")>>
                       \o Num(estimated_diesel_l_per_year) \o <<W("L/year"), W("based on")>>
                       \o Num(area) \o <<W("ha"), W(")")>>),
                   InventoryItem(SubstanceCO2,
                     FMul(estimated_electricity_kwh, electricity_ef(assessment.country)),
                     Str("kg"), "Air",
                     <<W("Grid"), W("electricity"), W("("), W("ESTIMATED:")>>
                       \o Num(Round0(estimated_electricity_kwh))
                       \o <<W("kWh/year"), W("based on")>> \o Num(area)
                       \o <<W("ha"), W(")")>>)>>)

RECURSIVE pesticide_items(_)
pesticide_items(pesticides) ==
  IF pesticides = <<>> THEN <<>>
  ELSE LET pesticide == Head(pesticides)
           total_ai_kg == pesticide.application_rate * pesticide.applications_per_season
       IN <<InventoryItem(SubstanceCO2Eq, total_ai_kg * 10, Str("kg CO2-eq"), "Air",
              <<W("Production of"), W(pesticide.pesticide_type), W("pesticide"), W("("),
                W(pesticide.active_ingredient), W(")")>>)>>
          \o pesticide_items(Tail(pesticides))

calculate_pesticide_emissions(inv, pest_management) ==
  add_inventory_items(inv, pesticide_items(pest_management.pesticides_used))

water_use_m3_per_ha(irrigation_system) ==
  CASE irrigation_system \in {Some("Drip irrigation"), Some("Drip Irrigation")} -> Fx(3000)
    [] irrigation_system \in {Some("Sprinkler"), Some("Sprinkler System")} -> Fx(5000)
    [] irrigation_system \in {Some("Flood irrigation"), Some("Furrow irrigation")} -> Fx(8000)
    [] irrigation_system \in {None, Some("None (Rainfed)")} -> 0
    [] OTHER -> Fx(4000)

calculate_water_consumption(inv, water_management, foods) ==
  LET total_water_m3 ==
        FMul(water_use_m3_per_ha(water_management.irrigation_system), total_area_ha(foods))
  IN IF total_water_m3 > 0
     THEN add_inventory_item(inv,
            InventoryItem(SubstanceWater, total_water_m3, Str("m3"), "Resource",
              <<W("Irrigation water"), W("("),
                W(IF IsSome(water_management.irrigation_system)
                  THEN Unwrap(water_management.irrigation_system) ELSE "Unknown"),
                W(")")>>))
     ELSE inv

\* str::to_lowercase, word by word
LowerWord(word) ==
  CASE word = "Rice" -> "rice" [] word = "Maize" -> "maize" [] word = "Yam" -> "yam"
    [] word = "Upland" -> "upland" [] OTHER -> word

to_lowercase(s) == [i \in 1..Len(s) |-> W(LowerWord(s[i].w))]

\* a variant that compares the name as written (no to_lowercase)
RECURSIVE rice_items_case_sensitive(_)
rice_items_case_sensitive(foods) ==
  IF foods = <<>> THEN <<>>
  ELSE LET food == Head(foods)
       IN (IF Contains(food.name, Str("rice")) /\ IsSome(food.area_allocated)
           THEN <<InventoryItem(SubstanceCH4, Unwrap(food.area_allocated) * 200,
                    Str("kg"), "Air",
                    <<W("Methane emissions from rice cultivation"), W("(")>>
                      \o Num(Unwrap(food.area_allocated)) \o <<W("ha"), W(")")>>)>>
           ELSE <<>>)
          \o rice_items_case_sensitive(Tail(foods))

RECURSIVE rice_items(_)
rice_items(foods) ==
  IF foods = <<>> THEN <<>>
  ELSE LET food == Head(foods)
       IN (IF Contains(to_lowercase(food.name), Str("rice")) /\ IsSome(food.area_allocated)
           THEN <<InventoryItem(SubstanceCH4, Unwrap(food.area_allocated) * 200,
                    Str("kg"), "Air",
                    <<W("Methane emissions from rice cultivation"), W("(")>>
                      \o Num(Unwrap(food.area_allocated)) \o <<W("ha"), W(")")>>)>>
           ELSE <<>>)
          \o rice_items(Tail(foods))

calculate_crop_specific_emissions(inv, foods) ==
  add_inventory_items(inv, rice_items(foods))

calculate_land_use(inv, foods) ==
  LET total_land_m2 == total_area_ha(foods) * 10000
  IN IF total_land_m2 > 0
     THEN add_inventory_item(inv,
            InventoryItem(SubstanceLand, total_land_m2, Str("m2*year"), "Resource",
              Str("Agricultural land occupation")))
     ELSE inv

\* calculate_inventory without the clear: the entries of the last run stay
inventory_keep(inv) == inv

\* self.inventory.clear()
inventory_clear(inv) == <<>>

calculate_inventory(inv, assessment) ==
  LET mgmt == assessment.management_practices
      i0 == inventory_clear(inv)
      i1 == IF IsSome(mgmt)
            THEN calculate_fertilizer_emissions(i0, Unwrap(mgmt).fertilization,
                                                assessment.foods)
            ELSE i0
      i2 == calculate_energy_emissions(i1, assessment)
      i3 == IF IsSome(mgmt)
            THEN calculate_pesticide_emissions(i2, Unwrap(mgmt).pest_management)
            ELSE i2
      i4 == IF IsSome(mgmt)
            THEN calculate_water_consumption(i3, Unwrap(mgmt).water_management,
                                             assessment.foods)
            ELSE i3
      i5 == calculate_crop_specific_emissions(i4, assessment.foods)
  IN calculate_land_use(i5, assessment.foods)


-----------------------------------------------------------------------------
(* production/lci.rs: from the inventory to the midpoint categories *)

MidpointResult(value, unit, uncertainty_range, data_quality_score, contributing_sources) ==
  [value |-> value, unit |-> unit, uncertainty_range |-> uncertainty_range,
   data_quality_score |-> data_quality_score,
   contributing_sources |-> contributing_sources]

impact_categories ==
  <<"Global warming", "Water consumption", "Water scarcity", "Land use",
    "Biodiversity loss", "Soil degradation", "Terrestrial acidification",
    "Freshwater eutrophication", "Marine eutrophication", "Fossil depletion",
    "Mineral depletion", "Particulate matter formation", "Photochemical oxidation">>

get_impact_unit(category) ==
  CASE category = "Global warming" -> Str("kg CO2-eq")
    [] category = "Water consumption" -> Str("m3")
    [] category = "Water scarcity" -> Str("m3 H2O-eq")
    [] category = "Land use" -> Str("m2a crop-eq")
    [] category = "Biodiversity loss" -> Str("MSA*m2*yr")
    [] category = "Soil degradation" -> Str("kg soil-eq")
    [] category = "Terrestrial acidification" -> Str("kg SO2-eq")
    [] category = "Freshwater eutrophication" -> Str("kg P-eq")
    [] category = "Marine eutrophication" -> Str("kg N-eq")
    [] category = "Fossil depletion" -> Str("kg oil-eq")
    [] category = "Mineral depletion" -> Str("kg Fe-eq")
    [] category = "Particulate matter formation" -> Str("PM2.5-eq")
    [] category = "Photochemical oxidation" -> Str("kg NMVOC-eq")
    [] OTHER -> Str("Unknown")

\* {:.2}: two decimals, rounded to nearest
Round2(x) == ((x + SCALE \div 200) \div (SCALE \div 100)) * (SCALE \div 100)

\* the contribution of one inventory item to global warming: <<kg CO2-eq, sources>>
gwp_contribution(item) ==
  CASE item.substance \in {SubstanceCO2, SubstanceCO2Eq} ->
         <<item.quantity,
           <<item.source \o Str(":") \o Num(Round2(item.quantity)) \o Str("kg CO2")>>>>
    [] ~(item.substance \in {SubstanceCO2, SubstanceCO2Eq})
         /\ Contains(item.substance, Str("N2O")) ->
         <<item.quantity * 273,
           <<item.source \o Str(":") \o Num(Round2(item.quantity))
               \o <<W("kg N2O"), W("(")>> \o Num(Round2(item.quantity * 273))
               \o <<W("kg CO2-eq"), W(")")>>>>>>
    [] OTHER ->
         IF item.substance = SubstanceCH4
         THEN <<item.quantity * 28,
                <<item.source \o Str(":") \o Num(Round2(item.quantity))
                    \o <<W("kg CH4"), W("(")>> \o Num(Round2(item.quantity * 28))
                    \o <<W("kg CO2-eq"), W(")")>>>>>>
         ELSE <<0, <<>>>>

\* for (_, item) in inventory: `order` is the order in which the map yields its keys
RECURSIVE gwp_fold(_, _)
gwp_fold(inventory, order) ==
  IF order = <<>> THEN <<0, <<>>>>
  ELSE LET c == gwp_contribution(inventory[Head(order)])
           rest == gwp_fold(inventory, Tail(order))
       IN <<c[1] + rest[1], c[2] \o rest[2]>>

\* the loops that add the items of one kind of substance to one category:
\* `exact` for substance == pattern, otherwise substance.contains(pattern)
RECURSIVE substance_fold(_, _, _, _, _)
substance_fold(inventory, order, pattern, exact, scale) ==
  IF order = <<>> THEN <<0, <<>>>>
  ELSE LET item == inventory[Head(order)]
           rest == substance_fold(inventory, Tail(order), pattern, exact, scale)
       IN IF (exact /\ item.substance = pattern)
               \/ (~exact /\ Contains(item.substance, pattern))
          THEN <<MulDiv(item.quantity, scale[1], scale[2]) + rest[1],
                 <<item.source>> \o rest[2]>>
          ELSE rest

calculate_midpoint_impacts(inventory, order) ==
  LET gwp == gwp_fold(inventory, order)
      water == substance_fold(inventory, order, SubstanceWater, TRUE, <<1, 1>>)
      land == substance_fold(inventory, order, Str("Land occupation"), FALSE, <<1, 10000>>)
      nitrate == substance_fold(inventory, order, Str("Nitrate"), FALSE, <<1, 100>>)
  IN [category \in Range(impact_categories) |->
        CASE category = "Global warming" ->
               MidpointResult(gwp[1], get_impact_unit(category),
                 <<FMul(gwp[1], 8000), FMul(gwp[1], 12000)>>, 8000, gwp[2])
          [] category = "Water consumption" ->
               MidpointResult(water[1], get_impact_unit(category), <<0, 0>>, 8000, water[2])
          [] category = "Land use" ->
               MidpointResult(land[1], get_impact_unit(category), <<0, 0>>, 8000, land[2])
          [] category = "Freshwater eutrophication" ->
               MidpointResult(nitrate[1], get_impact_unit(category), <<0, 0>>, 8000,
                              nitrate[2])
          [] OTHER ->
               MidpointResult(0, get_impact_unit(category), <<0, 0>>, 8000, <<>>)]


-----------------------------------------------------------------------------
(* production/lci_extended.rs: the extended midpoint categories *)

PerKg == Str("per kg")

\* region.contains(word) for an optional region
RegionContains(region, word) == IsSome(region) /\ Contains(Unwrap(region), Str(word))

get_aware_factor(country, region) ==
  CASE country = "Ghana" ->
         IF RegionContains(region, "Northern") \/ RegionContains(region, "Upper")
         THEN Fx(30) ELSE Fx(15)
    [] country = "Nigeria" ->
         IF RegionContains(region, "Northern") \/ RegionContains(region, "Sokoto")
              \/ RegionContains(region, "Kano")
         THEN Fx(35) ELSE Fx(18)
    [] OTHER -> Fx(20)

\* foods.iter().map(|f| f.quantity_kg).sum()
RECURSIVE total_production_kg(_)
total_production_kg(foods) ==
  IF foods = <<>> THEN 0 ELSE Head(foods).quantity_kg + total_production_kg(Tail(foods))

\* per-kg result with a range of (lo, hi) times the total
PerKgResult(total, kg, unit, lo, hi, quality, sources) ==
  MidpointResult(FDiv(total, kg), unit \o PerKg,
    <<FDiv(FMul(total, lo), kg), FDiv(FMul(total, hi), kg)>>, quality, sources)

conservation_biodiversity_factor(management_practices) ==
  IF IsSome(management_practices)
  THEN LET n == Len(Unwrap(management_practices).soil_management.conservation_practices)
       IN IF n > 2 THEN 8000 ELSE IF n > 0 THEN 9000 ELSE SCALE
  ELSE SCALE

base_msa_loss(production_system) ==
  CASE production_system = Some("Intensive") -> 3000
    [] production_system = Some("Organic") -> 1000
    [] production_system = Some("Agroforestry") -> 500
    [] production_system = Some("Extensive") -> 2000
    [] OTHER -> 2500

\* <<total loss, sources>> over the foods that have an area
RECURSIVE biodiversity_fold(_, _)
biodiversity_fold(foods, management_practices) ==
  IF foods = <<>> THEN <<0, <<>>>>
  ELSE LET food == Head(foods)
           rest == biodiversity_fold(Tail(foods), management_practices)
       IN IF IsSome(food.area_allocated)
          THEN LET crop_biodiversity_loss ==
                     FMul(FMul(base_msa_loss(food.production_system),
                               conservation_biodiversity_factor(management_practices)),
                          Unwrap(food.area_allocated)) * 10000
               IN <<crop_biodiversity_loss + rest[1],
                    <<food.name \o Str(":") \o Num(Round0(crop_biodiversity_loss))
                        \o <<W("m2*yr"), W("("), W("production system:"),
                             W(IF IsSome(food.production_system)
                               THEN Unwrap(food.production_system) ELSE "Conventional"),
                             W(")")>>>> \o rest[2]>>
          ELSE rest

calculate_biodiversity_impact(foods, management_practices, kg) ==
  LET b == biodiversity_fold(foods, management_practices)
  IN PerKgResult(b[1], kg, Str("PDF*m2*yr"), 5000, 15000, 6000, b[2])

AnyContains(practices, words) ==
  \E i \in 1..Len(practices) : \E word \in words : Contains(practices[i], Str(word))

calculate_soil_degradation(soil_mgmt, area, kg) ==
  LET conservation_factor ==
        IF AnyContains(soil_mgmt.conservation_practices, {"No-till", "Minimum"}) THEN 3000
        ELSE IF AnyContains(soil_mgmt.conservation_practices, {"Contour", "Terrac"})
        THEN 5000
        ELSE IF soil_mgmt.conservation_practices # <<>> THEN 7000
        ELSE SCALE
      erosion_kg == FMul(10 * area, conservation_factor) * 1000
      soc_loss == area * 500
      compaction_impact == area * 100
      erosion_source ==
        Str("Soil erosion:") \o Num(Fx(10)) \o Str("t/ha x") \o Num(Round1(area))
          \o Str("ha x") \o Num(Round2(conservation_factor))
          \o Str("conservation factor =") \o Num(Round0(erosion_kg)) \o Str("kg")
  IN IF soil_mgmt.uses_compost
     THEN PerKgResult(erosion_kg + compaction_impact, kg, Str("kg soil-eq"), 6000, 14000,
            7000, <<erosion_source, Str("Compost use: reduces soil degradation")>>)
     ELSE PerKgResult(erosion_kg + soc_loss + compaction_impact, kg, Str("kg soil-eq"),
            6000, 14000, 7000,
            <<erosion_source,
              Str("Soil organic carbon loss:") \o Num(Round0(soc_loss)) \o Str("kg")>>)

RECURSIVE marine_fold(_, _)
marine_fold(inventory, order) ==
  IF order = <<>> THEN <<0, <<>>>>
  ELSE LET item == inventory[Head(order)]
           rest == marine_fold(inventory, Tail(order))
           marine_n == MulDiv(FMul(item.quantity, 5000), 14, 62)
       IN IF Contains(item.substance, Str("Nitrate"))
          THEN <<marine_n + rest[1],
                 <<Str("N runoff from nitrate leaching:") \o Num(Round1(marine_n))
                     \o Str("kg N")>> \o rest[2]>>
          ELSE rest

calculate_marine_eutrophication(inventory, order, kg) ==
  LET r == marine_fold(inventory, order)
  IN PerKgResult(r[1], kg, Str("kg N-eq"), 5000, 15000, 6500, r[2])


get_n_content(fertilizer_type, npk_ratio) ==
  CASE fertilizer_type = "Urea" -> 4600
    [] fertilizer_type \in {"DAP", "Diammonium Phosphate (DAP)"} -> 1800
    [] fertilizer_type \in {"NPK Compound", "NPK"} ->
         IF IsSome(npk_ratio) /\ Len(Unwrap(npk_ratio)) >= 1
              /\ IsSome(ParseF64(Unwrap(npk_ratio)[1]))
         THEN Unwrap(ParseF64(Unwrap(npk_ratio)[1])) \div 100
         ELSE 1500
    [] OTHER -> 1000

\* str::find of a one-token pattern: the first index, 0 for None
FirstIndex(s, token) ==
  IF \E i \in 1..Len(s) : s[i] = token
  THEN CHOOSE i \in 1..Len(s) : s[i] = token /\ \A j \in 1..(i - 1) : s[j] # token
  ELSE 0

extract_fuel_consumption(source) ==
  LET start == FirstIndex(source, W("("))
      end == FirstIndex(source, W("L/year"))
      fuel_str == SubSeq(source, start + 1, end - 1)
      pos == FirstIndex(source, W("L/month"))
  IN IF start > 0 /\ end > 0 /\ Len(fuel_str) = 1 /\ IsSome(ParseF64(fuel_str[1]))
     THEN ParseF64(fuel_str[1])
     ELSE IF pos > 1 /\ IsSome(ParseF64(source[pos - 1]))
     THEN Some(Unwrap(ParseF64(source[pos - 1])) * 12)
     ELSE None

\* app.application_rate * n_content * app.applications_per_season, summed
RECURSIVE acidification_n_applied(_)
acidification_n_applied(apps) ==
  IF apps = <<>> THEN 0
  ELSE FMul(Head(apps).application_rate,
            get_n_content(Head(apps).fertilizer_type, Head(apps).npk_ratio))
         * Head(apps).applications_per_season
       + acidification_n_applied(Tail(apps))

\* {:.3}: three decimals, rounded to nearest
Round3(x) == ((x + SCALE \div 2000) \div (SCALE \div 1000)) * (SCALE \div 1000)

\* The four loops over the inventory that read a fuel volume out of item.source
\* (NOx, PM2.5, NMVOC, oil-eq). Per litre, in 1e-5 units: <<for a source that
\* contains "Diesel", for one that contains "Petrol">>.
fuel_factor(kind) ==
  CASE kind = "nox" -> <<1400, 1400>>
    [] kind = "pm" -> <<10, 0>>
    [] kind = "nmvoc" -> <<50, 200>>
    [] kind = "oil" -> <<85000, 83000>>

\* the line a loop pushes to the sources of its category
fuel_line(kind, fuel_l, amount) ==
  CASE kind = "nox" ->
         Str("NOx from fuel:") \o Num(Round1(MulDiv(fuel_l, 2, 100)))
           \o <<W("kg NOx"), W("(")>> \o Num(Round1(amount)) \o <<W("kg SO2-eq"), W(")")>>
    [] kind = "pm" -> Str("PM2.5 from diesel:") \o Num(Round3(amount)) \o Str("kg")
    [] kind = "nmvoc" -> Str("NMVOC from fuel:") \o Num(Round3(amount)) \o Str("kg")
    [] kind = "oil" ->
         Str("Fossil fuel depletion:") \o Num(Round1(fuel_l)) \o Str("L fuel =")
           \o Num(Round1(amount)) \o Str("kg oil-eq")

RECURSIVE fuel_fold(_, _, _)
fuel_fold(inventory, order, kind) ==
  IF order = <<>> THEN <<0, <<>>>>
  ELSE LET item == inventory[Head(order)]
           rest == fuel_fold(inventory, Tail(order), kind)
           fuel == extract_fuel_consumption(item.source)
           diesel == Contains(item.source, Str("Diesel"))
           petrol == Contains(item.source, Str("Petrol"))
           selected == CASE kind = "nox" -> diesel \/ petrol
                         [] kind = "pm" -> diesel
                         [] OTHER -> TRUE
           amount == IF ~IsSome(fuel) THEN 0
                     ELSE IF diesel THEN MulDiv(Unwrap(fuel), fuel_factor(kind)[1], 100000)
                     ELSE IF petrol THEN MulDiv(Unwrap(fuel), fuel_factor(kind)[2], 100000)
                     ELSE 0
       IN IF selected /\ IsSome(fuel)
          THEN <<amount + rest[1], <<fuel_line(kind, Unwrap(fuel), amount)>> \o rest[2]>>
          ELSE rest

calculate_terrestrial_acidification(inventory, order, management_practices, kg) ==
  LET fert == IF IsSome(management_practices)
              THEN Unwrap(management_practices).fertilization
              ELSE [uses_fertilizers |-> FALSE]
      nh3_volatilized == FMul(acidification_n_applied(fert.fertilizer_applications), 2000)
      nh3 == MulDiv(nh3_volatilized, 17, 14)
      nh3_to_so2_eq == FMul(nh3, 18800)
      \* nox = fuel * 0.02, so2-eq = nox * 0.70
      nox == fuel_fold(inventory, order, "nox")
  IN IF fert.uses_fertilizers
     THEN PerKgResult(nh3_to_so2_eq + nox[1], kg, Str("kg SO2-eq"), 6000, 14000, 7000,
            <<Str("NH3 volatilization:") \o Num(Round1(nh3)) \o <<W("kg NH3"), W("(")>>
                \o Num(Round1(nh3_to_so2_eq)) \o <<W("kg SO2-eq"), W(")")>>>> \o nox[2])
     ELSE PerKgResult(nox[1], kg, Str("kg SO2-eq"), 6000, 14000, 7000, nox[2])



calculate_particulate_matter(inventory, order, kg) ==
  LET pm == fuel_fold(inventory, order, "pm")
  IN PerKgResult(FMul(pm[1], 12000), kg, Str("kg PM2.5-eq"), 5000, 15000, 6000, pm[2])


calculate_photochemical_oxidation(inventory, order, kg) ==
  LET r == fuel_fold(inventory, order, "nmvoc")
  IN PerKgResult(r[1], kg, Str("kg NMVOC-eq"), 5000, 15000, 6500, r[2])


calculate_fossil_depletion(inventory, order, kg) ==
  LET r == fuel_fold(inventory, order, "oil")
  IN PerKgResult(r[1], kg, Str("kg oil-eq"), 9000, 11000, 8500, r[2])

RECURSIVE mineral_fold(_, _)
mineral_fold(inventory, order) ==
  IF order = <<>> THEN <<0, <<>>>>
  ELSE LET item == inventory[Head(order)]
           rest == mineral_fold(inventory, Tail(order))
       IN IF item.compartment = "Resource"
               /\ (Contains(item.substance, Str("Phosphate"))
                     \/ Contains(item.substance, Str("Potash")))
          THEN <<item.quantity + rest[1],
                 <<item.source \o Str(":") \o Num(Round1(item.quantity)) \o item.unit>>
                   \o rest[2]>>
          ELSE rest

calculate_mineral_depletion(inventory, order, kg) ==
  LET r == mineral_fold(inventory, order)
  IN PerKgResult(r[1], kg, Str("kg Fe-eq"), 7000, 13000,
                 IF r[1] > 0 THEN 7500 ELSE 7000, r[2])


\* the closing loop: every result not yet per kg, Land use excepted, is divided
scale_to_per_kg(category, result, kg) ==
  IF ~Contains(result.unit, PerKg) /\ category # "Land use"
  THEN [result EXCEPT !.value = FDiv(@, kg),
                      !.unit = @ \o PerKg,
                      !.uncertainty_range = <<FDiv(@[1], kg), FDiv(@[2], kg)>>]
  ELSE result

calculate_extended_midpoint_impacts(inventory, order, assessment) ==
  LET kg == total_production_kg(assessment.foods)
      area == total_area_ha(assessment.foods)
      mgmt == assessment.management_practices
      aware_factor == get_aware_factor(assessment.country, assessment.region)
      extended(basic, water_consumption, water_scarcity) ==
        [category \in DOMAIN basic |->
           CASE category = "Water scarcity" ->
                  MidpointResult(FDiv(water_scarcity, kg), Str("m3 H2O-eq") \o PerKg,
                    <<FDiv(FMul(water_scarcity, 7000), kg),
                      FDiv(FMul(water_scarcity, 13000), kg)>>,
                    7500,
                    <<Str("Water consumption:") \o Num(Round1(water_consumption.value))
                        \o Str("m3 x AWARE factor") \o Num(Round1(aware_factor))
                        \o Str("=") \o Num(Round1(water_scarcity)) \o Str("m3 H2O-eq")>>)
             [] category = "Biodiversity loss" /\ area > 0 ->
                  calculate_biodiversity_impact(assessment.foods, mgmt, kg)
             [] category = "Soil degradation" /\ IsSome(mgmt) ->
                  calculate_soil_degradation(Unwrap(mgmt).soil_management, area, kg)
             [] category = "Marine eutrophication" ->
                  calculate_marine_eutrophication(inventory, order, kg)
             [] category = "Terrestrial acidification" ->
                  calculate_terrestrial_acidification(inventory, order, mgmt, kg)
             [] category = "Particulate matter formation" ->
                  calculate_particulate_matter(inventory, order, kg)
             [] category = "Photochemical oxidation" ->
                  calculate_photochemical_oxidation(inventory, order, kg)
             [] category = "Fossil depletion" ->
                  calculate_fossil_depletion(inventory, order, kg)
             [] category = "Mineral depletion" ->
                  calculate_mineral_depletion(inventory, order, kg)
             [] OTHER -> basic[category]]
      per_kg(results) ==
        [category \in DOMAIN results |-> scale_to_per_kg(category, results[category], kg)]
      with_water(basic, water_consumption) ==
        per_kg(extended(basic, water_consumption,
                        FMul(water_consumption.value, aware_factor)))
      extend(basic) ==
        IF kg = 0 THEN basic ELSE with_water(basic, basic["Water consumption"])
  IN extend(calculate_midpoint_impacts(inventory, order))


-----------------------------------------------------------------------------
(* production/models.rs: PedigreeScore *)

RECURSIVE IsqrtIn(_, _, _)
IsqrtIn(n, lo, hi) ==
  IF lo >= hi THEN lo
  ELSE LET mid == (lo + hi + 1) \div 2
       IN IF mid * mid <= n THEN IsqrtIn(n, mid, hi) ELSE IsqrtIn(n, lo, mid - 1)

\* floor of the square root of n
Isqrt(n) == IsqrtIn(n, 0, 46340)

\* f64::exp of a fixed-point number in [0, 3]: the power series to 12 terms
RECURSIVE ExpTerms(_, _, _)
ExpTerms(x, term, k) ==
  IF k > 12 \/ term = 0 THEN 0
  ELSE term + ExpTerms(x, FMul(term, x) \div k, k + 1)

FExp(x) == ExpTerms(x, SCALE, 1)

uncertainty_factors ==
  <<<<10000, 10500, 11000, 12000, 15000>>,
    <<10000, 10200, 10500, 11000, 12000>>,
    <<10000, 10300, 11000, 12000, 15000>>,
    <<10000, 10100, 10200, 11000, 15000>>,
    <<10000, 10500, 12000, 15000, 20000>>>>

\* f64::ln of the entries of uncertainty_factors
LnTable ==
  10000 :> 0 @@ 10100 :> 100 @@ 10200 :> 198 @@ 10300 :> 296 @@ 10500 :> 488 @@ 11000 :> 953 @@ 12000 :> 1823 @@ 15000 :> 4055 @@ 20000 :> 6931

calculate_uncertainty_factor(pedigree) ==
  LET indicators == <<pedigree.reliability, pedigree.completeness,
                      pedigree.temporal_correlation, pedigree.geographical_correlation,
                      pedigree.technological_correlation>>
      lnsq(i) == LnTable[uncertainty_factors[i][indicators[i]]]
                   * LnTable[uncertainty_factors[i][indicators[i]]]
      total_variance == lnsq(1) + lnsq(2) + lnsq(3) + lnsq(4) + lnsq(5)
  IN FExp(Isqrt(total_variance))

\* a variant on the mean of the axes: 1 - sum / 25
calculate_overall_quality_score_of_mean(pedigree) ==
  LET sum == pedigree.reliability + pedigree.completeness + pedigree.temporal_correlation
               + pedigree.geographical_correlation + pedigree.technological_correlation
  IN SCALE - Fx(sum) \div 25

calculate_overall_quality_score(pedigree) ==
  LET sum == pedigree.reliability + pedigree.completeness + pedigree.temporal_correlation
               + pedigree.geographical_correlation + pedigree.technological_correlation
  IN SCALE - (Fx(sum) - Fx(5)) \div 20

-----------------------------------------------------------------------------
(* production/lca.rs: factor-based impacts of one food item *)

\* HashMap::get(key).unwrap_or(default)
GetOr(map, key, default) == IF key \in DOMAIN map THEN map[key] ELSE default

apply_climate_adjustments(base_impact, category, food) ==
  LET adjustment_factor ==
        CASE category = "Global warming" ->
               IF food.category \in {"Cereals", "Meat"}
               THEN GetOr(climate_adjustments, "methane_emission_factor", SCALE)
               ELSE SCALE
          [] category = "Soil degradation" ->
               GetOr(climate_adjustments, "tropical_decomposition_factor", SCALE)
          [] OTHER -> SCALE
  IN FMul(base_impact, adjustment_factor)

apply_seasonal_adjustments(base_impact, food) ==
  CASE food.seasonal_factor = Some("WetSeason") ->
         FMul(base_impact, GetOr(climate_adjustments, "wet_season_factor", SCALE))
    [] food.seasonal_factor = Some("DrySeason") ->
         FMul(base_impact, GetOr(climate_adjustments, "dry_season_factor", SCALE))
    [] OTHER -> base_impact

apply_production_system_adjustments(base_impact, food) ==
  CASE food.production_system = Some("Intensive") -> FMul(base_impact, 12000)
    [] food.production_system = Some("Extensive") -> FMul(base_impact, 15000)
    [] food.production_system = Some("Agroforestry") -> FMul(base_impact, 8000)
    [] food.production_system = Some("Organic") -> FMul(base_impact, 9000)
    [] OTHER -> base_impact

calculate_uncertainty_range(central_value, base_uncertainty, pedigree) ==
  LET uncertainty_factor == calculate_uncertainty_factor(pedigree)
      expanded_range == <<FMul(base_uncertainty[1], uncertainty_factor),
                          FMul(base_uncertainty[2], uncertainty_factor)>>
      lower_bound == central_value - Abs(central_value - expanded_range[1])
      upper_bound == central_value + Abs(expanded_range[2] - central_value)
  IN <<Max(lower_bound, 0), upper_bound>>

get_impact_categories == impact_categories

calculate_enhanced_food_impacts(food, country) ==
  LET result(category, factor, total_impact) ==
        MidpointResult(total_impact, get_impact_unit(category),
          calculate_uncertainty_range(total_impact, factor[3], factor[4]),
          calculate_overall_quality_score(factor[4]), <<factor[2]>>)
      adjusted(category, factor) ==
        LET climate_adjusted_per_unit == apply_climate_adjustments(factor[1], category, food)
            seasonally_adjusted_per_unit ==
              apply_seasonal_adjustments(climate_adjusted_per_unit, food)
            system_adjusted_per_unit ==
              apply_production_system_adjustments(seasonally_adjusted_per_unit, food)
        IN result(category, factor, FMul(system_adjusted_per_unit, food.quantity_kg))
      per_category(lookup_hierarchy) ==
        [category \in Range(get_impact_categories) |->
           adjusted(category,
                    find_best_factor(impact_factors, food, category, lookup_hierarchy))]
  IN per_category(build_lookup_hierarchy(food, country))

\* sqrt(a^2 + b^2) of two fixed-point numbers, scaled so that the squares fit
RECURSIVE Hypot(_, _)
Hypot(a, b) ==
  IF Max(Abs(a), Abs(b)) > 30000 THEN 10 * Hypot(a \div 10, b \div 10)
  ELSE Isqrt(a * a + b * b)

\* a variant whose range is one combined standard deviation either side
aggregate_midpoint_results_one_std(total, addition) ==
  LET value == total.value + addition.value
      one_std == Hypot(total.uncertainty_range[2] - total.uncertainty_range[1],
                       addition.uncertainty_range[2] - addition.uncertainty_range[1]) \div 4
      total_weight == value + addition.value
  IN [total EXCEPT
        !.value = value,
        !.uncertainty_range = <<Max(value - one_std, 0), value + one_std>>,
        !.data_quality_score =
          IF total_weight > 0
          THEN MulDiv(@, value, total_weight)
                 + MulDiv(addition.data_quality_score, addition.value, total_weight)
          ELSE @,
        !.contributing_sources = @ \o addition.contributing_sources]

aggregate_midpoint_results(total, addition) ==
  LET value == total.value + addition.value
      \* 2 * sqrt(w1^2 / 16 + w2^2 / 16) = sqrt(w1^2 + w2^2) / 2
      two_std == Hypot(total.uncertainty_range[2] - total.uncertainty_range[1],
                       addition.uncertainty_range[2] - addition.uncertainty_range[1]) \div 2
      total_weight == value + addition.value
  IN [total EXCEPT
        !.value = value,
        !.uncertainty_range = <<Max(value - two_std, 0), value + two_std>>,
        !.data_quality_score =
          IF total_weight > 0
          THEN MulDiv(@, value, total_weight)
                 + MulDiv(addition.data_quality_score, addition.value, total_weight)
          ELSE @,
        !.contributing_sources = @ \o addition.contributing_sources]


\* a variant that scales "Water consumption" itself as well
apply_regional_adjustments_in_place(impacts, country, region) ==
  IF "Water consumption" \in DOMAIN impacts
  THEN LET water_result == impacts["Water consumption"]
           aware_factor ==
             CASE country = "Ghana" -> GetOr(regional_factors, "Ghana_water_scarcity", Fx(20))
               [] country = "Nigeria" /\ region = Some(Str("Northern")) ->
                    GetOr(regional_factors, "Nigeria_north_water_scarcity", Fx(30))
               [] country = "Nigeria" /\ region # Some(Str("Northern")) ->
                    GetOr(regional_factors, "Nigeria_south_water_scarcity", Fx(15))
               [] OTHER -> Fx(1)
           scaled ==
             [water_result EXCEPT
                !.value = FMul(@, aware_factor),
                !.uncertainty_range = <<FMul(@[1], aware_factor), FMul(@[2], aware_factor)>>]
       IN MapInsert(MapInsert(impacts, "Water consumption", scaled), "Water scarcity",
            [scaled EXCEPT !.unit = Str("m3 H2O-eq"),
               !.contributing_sources = <<Str("AWARE regional factor:") \o Num(aware_factor)>>])
  ELSE impacts

apply_regional_adjustments(impacts, country, region) ==
  IF "Water consumption" \in DOMAIN impacts
  THEN LET water_result == impacts["Water consumption"]
           aware_factor ==
             CASE country = "Ghana" -> GetOr(regional_factors, "Ghana_water_scarcity", Fx(20))
               [] country = "Nigeria" /\ region = Some(Str("Northern")) ->
                    GetOr(regional_factors, "Nigeria_north_water_scarcity", Fx(30))
               [] country = "Nigeria" /\ region # Some(Str("Northern")) ->
                    GetOr(regional_factors, "Nigeria_south_water_scarcity", Fx(15))
               [] OTHER -> Fx(1)
       IN MapInsert(impacts, "Water scarcity",
            MidpointResult(FMul(water_result.value, aware_factor), Str("m3 H2O-eq"),
              <<FMul(water_result.uncertainty_range[1], aware_factor),
                FMul(water_result.uncertainty_range[2], aware_factor)>>,
              water_result.data_quality_score,
              <<Str("AWARE regional factor:") \o Num(aware_factor)>>))
  ELSE impacts

\* result.value *= factor for the categories of `cats` that the map holds
ScaleValues(impacts, cats, factor) ==
  [c \in DOMAIN impacts |->
     IF c \in cats THEN [impacts[c] EXCEPT !.value = FMul(@, factor)] ELSE impacts[c]]

\* value and both ends of the range are scaled
ScaleValueAndRange(impacts, category, factor) ==
  IF category \in DOMAIN impacts
  THEN [impacts EXCEPT ![category] =
          [@ EXCEPT !.value = FMul(@, factor),
                    !.uncertainty_range = <<FMul(@[1], factor), FMul(@[2], factor)>>]]
  ELSE impacts

PushSource(impacts, category, source) ==
  IF category \in DOMAIN impacts
  THEN [impacts EXCEPT ![category].contributing_sources = Append(@, source)]
  ELSE impacts

apply_management_practice_adjustments(impacts, management_practices) ==
  LET soil == management_practices.soil_management
      fert == management_practices.fertilization
      irrigation_system == management_practices.water_management.irrigation_system
      soil_factor == IF Len(soil.conservation_practices) > 2 THEN 8500
                     ELSE IF Len(soil.conservation_practices) > 0 THEN 9200 ELSE SCALE
      carbon_factor == IF soil.uses_compost THEN 9200 ELSE SCALE
      n2o_factor == IF fert.soil_test_based /\ fert.follows_nutrient_plan THEN 8000
                    ELSE IF fert.soil_test_based \/ fert.follows_nutrient_plan THEN 9000
                    ELSE 12000
      eutrophication_factor == IF fert.follows_nutrient_plan THEN 7000 ELSE 13000
      water_efficiency_factor ==
        CASE irrigation_system \in {Some("Drip irrigation"), Some("Micro-sprinkler")} -> 7000
          [] irrigation_system = Some("Sprinkler") -> 8500
          [] irrigation_system \in {Some("Flood irrigation"), Some("Furrow irrigation")} ->
               SCALE
          [] irrigation_system = None -> 5000
          [] OTHER -> 9000
      pesticide_count == Len(management_practices.pest_management.pesticides_used)
      pesticide_factor == IF pesticide_count = 0 THEN 9000
                          ELSE IF pesticide_count <= 2 THEN 9500
                          ELSE IF pesticide_count <= 5 THEN SCALE ELSE 12000
      m1 == PushSource(ScaleValueAndRange(impacts, "Soil degradation", soil_factor),
              "Soil degradation",
              Str("Conservation practices:") \o Num(Fx(Len(soil.conservation_practices))))
      m2 == ScaleValueAndRange(m1, "Global warming", carbon_factor)
      m3 == ScaleValues(m2, {"Global warming"}, n2o_factor)
      m4 == ScaleValues(ScaleValues(m3, {"Freshwater eutrophication"}, eutrophication_factor),
                        {"Marine eutrophication"}, eutrophication_factor)
      m5 == ScaleValues(ScaleValues(m4, {"Water consumption"}, water_efficiency_factor),
                        {"Water scarcity"}, water_efficiency_factor)
      m6 == IF management_practices.water_management.water_conservation_practices # <<>>
            THEN ScaleValues(m5, {"Soil degradation"}, 8000) ELSE m5
      m7 == ScaleValues(m6, {"Biodiversity loss"}, pesticide_factor)
  IN IF management_practices.pest_management.uses_ipm
     THEN ScaleValues(m7, {"Biodiversity loss", "Terrestrial acidification",
                           "Freshwater eutrophication", "Marine eutrophication"}, 9000)
     ELSE m7

-----------------------------------------------------------------------------
(* production/lca.rs: endpoints and single score.  Endpoint values are integers
   in the units  Human Health 1e-9 DALY,  Ecosystem Quality 1e-14 species.yr,
   Resource Scarcity 1e-2 USD;  normalization factors are in the same units;
   scores are in millionths. *)

EndpointResult(value, unit, uncertainty_range, normalization_factor, regional_adaptation_factor) ==
  [value |-> value, unit |-> unit, uncertainty_range |-> uncertainty_range,
   normalization_factor |-> normalization_factor,
   regional_adaptation_factor |-> regional_adaptation_factor]

\* midpoint.get(category) value times a factor given as num / den, 0 when absent
MidpointTimes(midpoint, category, num, den) ==
  IF category \in DOMAIN midpoint THEN MulDiv(midpoint[category].value, num, den) ELSE 0

\* the three EndpointResult records built from the endpoint sums
enhanced_endpoint_results(human_health, ecosystem_quality, resource_scarcity) ==
  [category \in {"Human Health", "Ecosystem Quality", "Resource Scarcity"} |->
     CASE category = "Human Health" ->
            EndpointResult(human_health, "DALY per kg",
              <<MulDiv(human_health, 1, 2), human_health * 2>>, Some(52000000), Some(15000))
       [] category = "Ecosystem Quality" ->
            EndpointResult(ecosystem_quality, "species.yr per kg",
              <<MulDiv(ecosystem_quality, 3, 10), ecosystem_quality * 3>>,
              Some(410000), Some(18000))
       [] category = "Resource Scarcity" ->
            EndpointResult(resource_scarcity, "USD per kg",
              <<MulDiv(resource_scarcity, 7, 10), MulDiv(resource_scarcity, 3, 2)>>,
              Some(850000), Some(13000))]

calculate_enhanced_endpoint_impacts(midpoint) ==
  enhanced_endpoint_results(
    MidpointTimes(midpoint, "Global warming", 250, 10000)
      + MidpointTimes(midpoint, "Water scarcity", 120, 10000)
      + MidpointTimes(midpoint, "Particulate matter formation", 1000, 10000),
    MidpointTimes(midpoint, "Global warming", 12, 100000)
      + MidpointTimes(midpoint, "Land use", 21, 10)
      + MidpointTimes(midpoint, "Biodiversity loss", 150, 10000),
    MidpointTimes(midpoint, "Water scarcity", 18, 10000)
      + MidpointTimes(midpoint, "Fossil depletion", 55, 100000))


MILLION == 10 ^ 6

SingleScoreResult(value, unit, uncertainty_range, weighting_factors, method) ==
  [value |-> value, unit |-> unit, uncertainty_range |-> uncertainty_range,
   weighting_factors |-> weighting_factors, methodology |-> method]

\* weights in thousandths
weighting_factors(weighting_method) ==
  IF weighting_method = Some("AfricanPriorities")
  THEN [c \in {"Human Health", "Ecosystem Quality", "Resource Scarcity"} |->
          CASE c = "Human Health" -> 400 [] c = "Ecosystem Quality" -> 350
            [] c = "Resource Scarcity" -> 250]
  ELSE [c \in {"Human Health", "Ecosystem Quality", "Resource Scarcity"} |->
          CASE c = "Human Health" -> 333 [] c = "Ecosystem Quality" -> 333
            [] c = "Resource Scarcity" -> 334]

\* result.normalization_factor.unwrap_or_else(..)
norm_factor(category, result) ==
  IF IsSome(result.normalization_factor) THEN Unwrap(result.normalization_factor)
  ELSE CASE category = "Human Health" -> 22000000
         [] category = "Ecosystem Quality" -> 180000
         [] category = "Resource Scarcity" -> 420000
         [] OTHER -> 1

\* x / norm * weight, in millionths
Weighted(x, norm, weight) == MulDiv(MulDiv(x, MILLION, norm), weight, 1000)

RECURSIVE SumOver(_, _)
SumOver(f, keys) ==
  IF keys = {} THEN 0
  ELSE LET k == CHOOSE k \in keys : TRUE IN f[k] + SumOver(f, keys \ {k})

\* sqrt of the sum of the squares of f over keys
RECURSIVE HypotOver(_, _)
HypotOver(f, keys) ==
  IF keys = {} THEN 0
  ELSE LET k == CHOOSE k \in keys : TRUE IN Hypot(f[k], HypotOver(f, keys \ {k}))

\* single_score / 2.0 without the clamp
display_score_unclamped(single_score) == single_score \div 2

\* (single_score / 2.0).min(1.0).max(0.0)
display_score(single_score) == Max(Min(single_score \div 2, MILLION), 0)

calculate_enhanced_single_score(endpoint) ==
  LET weights == weighting_factors(methodology.weighting_method)
      weighted_cats == DOMAIN endpoint \cap DOMAIN weights
      weighted_score ==
        [c \in weighted_cats |->
           Weighted(endpoint[c].value, norm_factor(c, endpoint[c]), weights[c])]
      weighted_uncertainty ==
        [c \in weighted_cats |->
           Weighted(endpoint[c].uncertainty_range[2] - endpoint[c].uncertainty_range[1],
                    norm_factor(c, endpoint[c]), weights[c]) \div 4]
      single_score == SumOver(weighted_score, weighted_cats)
      score_std == HypotOver(weighted_uncertainty, weighted_cats)
  IN SingleScoreResult(display_score(single_score),
       "Environmental Impact Score (0-1 scale, 1.0 = 2x reference impact)",
       <<Max((single_score - 2 * score_std) \div 2, 0),
         Min((single_score + 2 * score_std) \div 2, MILLION)>>,
       weights,
       <<W("ISO 14044 compliant:"),
         W(IF IsSome(methodology.normalization_method)
           THEN Unwrap(methodology.normalization_method) ELSE "None"),
         W("normalization with"),
         W(IF IsSome(methodology.weighting_method)
           THEN Unwrap(methodology.weighting_method) ELSE "None"),
         W("weighting. Raw score:"), N(((single_score + 500) \div 1000) * 1000),
         W("person-equiv.")>>)


-----------------------------------------------------------------------------
(* The iteration order of the inventory HashMap.  The order of a std HashMap
   depends on its RandomState, which the code never fixes: every order is a
   possible outcome.  A seed stands for a RandomState; the seeds up to MaxSeed
   give rotations of the keys and their reversals. *)

MaxSeed == 2

HashSeeds == 1..MaxSeed

inventory_key(substance, compartment) == substance \o Str("_") \o DebugStr(compartment)

\* every key add_inventory_item can produce
InventoryKeys ==
  <<inventory_key(SubstanceN2O, "Air"), inventory_key(SubstanceCO2, "Air"),
    inventory_key(<<W("Phosphate"), W("rock")>>, "Resource"),
    inventory_key(Str("Potash"), "Resource"),
    inventory_key(SubstanceN2OIndirect, "Air"), inventory_key(SubstanceNitrate, "Water"),
    inventory_key(SubstanceCO2Eq, "Air"), inventory_key(SubstanceWater, "Resource"),
    inventory_key(SubstanceCH4, "Air"), inventory_key(SubstanceLand, "Resource")>>

Rotate(s, k) == [i \in 1..Len(s) |-> s[((i - 1 + k) % Len(s)) + 1]]

Reverse(s) == [i \in 1..Len(s) |-> s[Len(s) + 1 - i]]

SeededKeys(seed) ==
  IF seed % 2 = 1 THEN Rotate(InventoryKeys, (seed - 1) \div 2)
  ELSE Reverse(Rotate(InventoryKeys, (seed - 2) \div 2))

\* the keys of the map in the order `for (_, item) in inventory` visits them
iteration_order(inv, seed) ==
  LET present(k) == k \in DOMAIN inv IN SelectSeq(SeededKeys(seed), present)

-----------------------------------------------------------------------------
(* production/lca.rs, processing/lca.rs: the data quality of a result *)

RECURSIVE SumSeq(_)
SumSeq(s) == IF s = <<>> THEN 0 ELSE Head(s) + SumSeq(Tail(s))

\* the (food, category) pairs in the order of the two nested loops
quality_pairs(foods) ==
  LET n == Len(get_impact_categories)
  IN [k \in 1..(Len(foods) * n) |->
        [food |-> foods[((k - 1) \div n) + 1],
         category |-> get_impact_categories[((k - 1) % n) + 1]]]

\* find_best_factor for a pair: (value, source, uncertainty range, pedigree)
pair_factor(pair, country) ==
  find_best_factor(impact_factors, pair.food, pair.category,
                   build_lookup_hierarchy(pair.food, country))

\* !source.contains("Default estimate")
counted_pairs(foods, country) ==
  SelectSeq(quality_pairs(foods),
    LAMBDA pair : ~Contains(pair_factor(pair, country)[2], <<W("Default"), W("estimate")>>))

source_type_of(source) ==
  IF Contains(source, Str("Ghana")) \/ Contains(source, Str("Nigeria"))
  THEN "Country-specific"
  ELSE IF Contains(source, Str("Africa")) THEN "Regional"
  ELSE IF Contains(source, Str("Default")) THEN "Estimated"
  ELSE "Global"

\* total_meat_kg
RECURSIVE meat_kg(_)
meat_kg(foods) ==
  IF foods = <<>> THEN 0
  ELSE (IF Head(foods).category = "Meat" THEN Head(foods).quantity_kg ELSE 0)
       + meat_kg(Tail(foods))

\* AfricanLCAEngine::assess_data_quality.  data_source_mix is given as the map
\* from source type to percentage it is collected from.
assess_data_quality(foods, country) ==
  LET total_meat_kg == meat_kg(foods)
      report(counted, sources, overall_quality, low_warnings) ==
        [overall_confidence |->
           IF overall_quality > 7000 THEN "High"
           ELSE IF overall_quality > 5000 THEN "Medium"
           ELSE IF overall_quality > 3000 THEN "Low" ELSE "VeryLow",
         data_source_mix |->
           [t \in {source_type_of(sources[k]) : k \in 1..Len(counted)} |->
              [percentage |->
                 (Fx(Cardinality({k \in 1..Len(counted) :
                      source_type_of(sources[k]) = t})) * 100)
                   \div Len(counted),
               quality_score |-> overall_quality]],
         regional_adaptation |-> TRUE,
         completeness_score |-> overall_quality,
         geographical_representativeness |->
           IF country \in {"Ghana", "Nigeria"} THEN 7000 ELSE 4000,
         warnings |->
           low_warnings
             \o (IF total_meat_kg > Fx(20)
                 THEN <<Str("High meat consumption detected:") \o Num(Round1(total_meat_kg))
                          \o Str("kg. Consider reducing meat intake")>>
                 ELSE <<>>),
         recommendations |->
           (IF overall_quality < 6000
            THEN <<Str("Consider collecting primary data for major food items")>> ELSE <<>>)
             \o (IF Len(low_warnings) > Len(foods) \div 2
                 THEN <<Str("Prioritize data improvement for most uncertain factors")>>
                 ELSE <<>>)]
      \* the warning of every counted pair whose quality score is below 0.5
      warned(counted, sources, quality_scores, low) ==
        report(counted, sources,
               IF quality_scores = <<>> THEN 0
               ELSE SumSeq(quality_scores) \div Len(quality_scores),
               [k \in 1..Len(low) |->
                  Str("Low data quality for") \o counted[low[k]].food.name
                    \o Text(counted[low[k]].category) \o Str(":") \o sources[low[k]]])
      scored(counted, sources, quality_scores) ==
        warned(counted, sources, quality_scores,
               SelectSeq([k \in 1..Len(counted) |-> k],
                         LAMBDA k : quality_scores[k] < 5000))
      looked_up(counted, factors) ==
        scored(counted, [k \in 1..Len(counted) |-> factors[k][2]],
               [k \in 1..Len(counted) |-> calculate_overall_quality_score(factors[k][4])])
      counting(counted) ==
        looked_up(counted, [k \in 1..Len(counted) |-> pair_factor(counted[k], country)])
  IN counting(counted_pairs(foods, country))

\* the warnings of ProcessingLCAEngine::assess_processing_data_quality
RECURSIVE processing_warnings(_)
processing_warnings(products) ==
  IF products = <<>> THEN <<>>
  ELSE LET product == Head(products)
       IN (IF product.processing_steps = <<>>
           THEN <<Str("No processing steps defined for") \o product.name>> ELSE <<>>)
          \o (IF product.raw_material_inputs = <<>>
              THEN <<Str("No raw material inputs defined for") \o product.name>>
              ELSE <<>>)
          \o processing_warnings(Tail(products))

assess_processing_data_quality(products) ==
  LET warnings == processing_warnings(products)
  IN [overall_confidence |-> IF Len(warnings) > Len(products) THEN "Low" ELSE "Medium",
      data_source_mix |->
        ("Estimated" :> [percentage |-> Fx(60), quality_score |-> 6000]
           @@ "Global" :> [percentage |-> Fx(40), quality_score |-> 5000]),
      regional_adaptation |-> TRUE,
      completeness_score |-> 7000,
      geographical_representativeness |-> 6000,
      warnings |-> warnings,
      recommendations |->
        <<Str("Consider implementing energy monitoring systems for better data quality"),
          Str("Regular water consumption monitoring recommended")>>]

-----------------------------------------------------------------------------
(* production/lca.rs: perform_assessment and perform_comprehensive_assessment *)

Assessment(country, region, foods, management_practices, equipment_energy) ==
  [country |-> country, region |-> region, foods |-> foods,
   management_practices |-> management_practices,
   equipment_energy |-> equipment_energy, results |-> None]

LCAResults(midpoint, endpoint, single_score, data_quality, breakdown) ==
  [midpoint_impacts |-> midpoint, endpoint_impacts |-> endpoint,
   single_score |-> single_score, data_quality |-> data_quality,
   breakdown_by_food |-> breakdown]

\* assessment.results = Some(..), and the item list handed over with it
store_results_taking_foods(assessment, results) ==
  [k \in DOMAIN assessment |->
     IF k = "results" THEN Some(results)
     ELSE IF k \in {"foods", "processed_products"} THEN <<>> ELSE assessment[k]]

\* assessment.results = Some(LCAResults {..})
store_results(assessment, results) == [assessment EXCEPT !.results = Some(results)]

\* format!("{} ({}kg)", food.name, food.quantity_kg)
breakdown_key(food) == food.name \o <<W("("), N(food.quantity_kg), W("kg)")>>

\* the merge loop without the test for a zero total
merge_food_results_always(midpoint, food_results) ==
  [category \in DOMAIN midpoint |->
     IF category \in DOMAIN food_results
     THEN aggregate_midpoint_results(midpoint[category], food_results[category])
     ELSE midpoint[category]]

\* the merge loop of perform_assessment for one food item
merge_food_results(midpoint, food_results) ==
  [category \in DOMAIN midpoint |->
     IF category \in DOMAIN food_results /\ midpoint[category].value = 0
     THEN aggregate_midpoint_results(midpoint[category], food_results[category])
     ELSE midpoint[category]]

\* Step 2 of perform_assessment over all foods: <<midpoint_impacts, breakdown_by_food>>
RECURSIVE hybrid_merge(_, _, _, _)
hybrid_merge(midpoint, breakdown, foods, country) ==
  IF foods = <<>> THEN <<midpoint, breakdown>>
  ELSE LET merged(food_results) ==
             hybrid_merge(merge_food_results(midpoint, food_results),
                          MapInsert(breakdown, breakdown_key(Head(foods)), food_results),
                          Tail(foods), country)
       IN merged(calculate_enhanced_food_impacts(Head(foods), country))

\* Step 4 of perform_comprehensive_assessment over all foods: breakdown_by_food
RECURSIVE comprehensive_breakdown(_, _, _, _)
comprehensive_breakdown(breakdown, foods, country, management_practices) ==
  IF foods = <<>> THEN breakdown
  ELSE LET adjust(food_results) ==
             IF IsSome(management_practices)
             THEN apply_management_practice_adjustments(food_results,
                    Unwrap(management_practices))
             ELSE food_results
           adjusted == adjust(calculate_enhanced_food_impacts(Head(foods), country))
       IN comprehensive_breakdown(
            MapInsert(breakdown, breakdown_key(Head(foods)), adjusted),
            Tail(foods), country, management_practices)


-----------------------------------------------------------------------------
(* processing/lca.rs: ProcessingLCAEngine *)

ProcessingImpactFactor(facility_type, product_type, country, impact_category, value_per_tonne) ==
  [facility_type |-> facility_type, product_type |-> product_type,
   country |-> country, impact_category |-> impact_category,
   value_per_tonne |-> value_per_tonne]

\* format!("{:?}_{:?}_{:?}_{}", facility_type, product_type, country, category)
processing_factor_key(facility_type, product_type, country, category) ==
  DebugStr(facility_type) \o Str("_") \o DebugStr(product_type) \o Str("_")
    \o DebugStr(country) \o Str("_") \o Text(category)

RECURSIVE processing_load_impact_factors(_, _)
processing_load_impact_factors(map, factors) ==
  IF factors = <<>> THEN map
  ELSE LET factor == Head(factors)
       IN processing_load_impact_factors(
            MapInsert(map,
              processing_factor_key(factor.facility_type, factor.product_type,
                                    factor.country, factor.impact_category),
              factor),
            Tail(factors))

\* format!("{:?}_{:?}_{:?}", facility_type, capacity_range, country)
RECURSIVE load_benchmarks(_, _)
load_benchmarks(map, benchmarks) ==
  IF benchmarks = <<>> THEN map
  ELSE LET benchmark == Head(benchmarks)
       IN load_benchmarks(
            MapInsert(map,
              DebugStr(benchmark.facility_type) \o Str("_")
                \o DebugStr(benchmark.capacity_range) \o Str("_")
                \o DebugStr(benchmark.country),
              benchmark),
            Tail(benchmarks))

get_processing_impact_categories ==
  <<"Global warming", "Energy consumption", "Water consumption", "Water scarcity",
    "Wastewater generation", "Solid waste generation", "Air pollution", "Land use",
    "Terrestrial acidification", "Freshwater eutrophication", "Marine eutrophication",
    "Fossil depletion", "Particulate matter formation", "Raw material depletion">>

get_processing_impact_unit(category) ==
  CASE category = "Global warming" -> "kg CO2-eq"
    [] category = "Energy consumption" -> "kWh"
    [] category = "Water consumption" -> "m3"
    [] category = "Water scarcity" -> "m3 H2O-eq"
    [] category = "Wastewater generation" -> "m3"
    [] category = "Solid waste generation" -> "kg"
    [] category = "Air pollution" -> "kg PM2.5-eq"
    [] category = "Land use" -> "m2a"
    [] category = "Terrestrial acidification" -> "kg SO2-eq"
    [] category = "Freshwater eutrophication" -> "kg P-eq"
    [] category = "Marine eutrophication" -> "kg N-eq"
    [] category = "Fossil depletion" -> "kg oil-eq"
    [] category = "Particulate matter formation" -> "PM2.5-eq"
    [] category = "Raw material depletion" -> "kg"
    [] OTHER -> "Unknown"

\* the sum of one field over the processing steps
RECURSIVE SumSteps(_, _)
SumSteps(steps, field) ==
  IF steps = <<>> THEN 0 ELSE Head(steps)[field] + SumSteps(Tail(steps), field)

estimate_energy_consumption_per_tonne(product, facility) ==
  LET step_energy == SumSteps(product.processing_steps, "energy_intensity")
      overhead_factor ==
        CASE facility.facility_type = "Mill" -> 12000
          [] facility.facility_type = "Bakery" -> 15000
          [] facility.facility_type = "FishProcessing" -> 18000
          [] facility.facility_type = "MeatProcessing" -> 18000
          [] facility.facility_type = "DairyProcessing" -> 16000
          [] OTHER -> 13000
  IN FMul(step_energy, overhead_factor)

\* the process-specific emissions of the steps that state a factor
RECURSIVE step_emissions_total(_, _)
step_emissions_total(steps, annual_production) ==
  IF steps = <<>> THEN 0
  ELSE (IF IsSome(Head(steps).emissions_factor)
        THEN FMul(Unwrap(Head(steps).emissions_factor), annual_production) ELSE 0)
       + step_emissions_total(Tail(steps), annual_production)

\* Option<f64>::unwrap_or
UnwrapOr(o, default) == IF IsSome(o) THEN Unwrap(o) ELSE default

calculate_gwp_impact(product, facility, operations) ==
  LET energy_per_tonne == estimate_energy_consumption_per_tonne(product, facility)
      source == operations.energy_management.primary_energy_source
      energy_gwp ==
        CASE source = "GridElectricity" ->
               FMul(FMul(energy_per_tonne, 4500), product.annual_production)
          [] source = "DieselGenerator" ->
               FMul(UnwrapOr(operations.energy_management.monthly_fuel_consumption,
                             Fx(1000)) * 12, 26800)
          [] source = "SolarPower" ->
               FMul(FMul(energy_per_tonne, 500), product.annual_production)
          [] OTHER ->
               FMul(FMul(energy_per_tonne, 3500), product.annual_production)
      organic_waste ==
        UnwrapOr(operations.waste_management.solid_waste_generation, Fx(100)) * 365
      organic_fraction ==
        FDiv(operations.waste_management.organic_waste_percentage, Fx(100))
      method == operations.waste_management.waste_disposal_method
      waste_gwp ==
        CASE method = "Landfill" -> FMul(FMul(organic_waste, organic_fraction), 5000)
          [] method = "Composting" -> FMul(FMul(organic_waste, organic_fraction), 1000)
          [] method = "AnaerobicDigestion" ->
               -FMul(FMul(organic_waste, organic_fraction), 2000)
          [] OTHER -> 0
  IN energy_gwp
       + step_emissions_total(product.processing_steps, product.annual_production)
       + waste_gwp

calculate_energy_impact(product, facility, operations) ==
  FMul(estimate_energy_consumption_per_tonne(product, facility),
       product.annual_production)

calculate_water_impact(product, facility, operations) ==
  LET base_water_per_tonne == SumSteps(product.processing_steps, "water_usage")
      additional_water == FMul(base_water_per_tonne, 3000)
      total_water_per_tonne == base_water_per_tonne + additional_water
      measures == Len(operations.water_management.water_conservation_measures)
      efficiency_factor ==
        CASE measures = 0 -> 10000
          [] measures \in 1..2 -> 9000
          [] measures \in 3..4 -> 8000
          [] OTHER -> 7000
  IN FMul(FMul(total_water_per_tonne, efficiency_factor), product.annual_production)
       \div 1000

calculate_wastewater_impact(product, facility, operations) ==
  LET water_impact == calculate_water_impact(product, facility, operations)
      treatment == operations.water_management.wastewater_treatment
      treatment_factor ==
        CASE treatment = "None" -> 10000
          [] treatment = "BasicSedimentation" -> 8000
          [] treatment = "BiologicalTreatment" -> 6000
          [] treatment = "ChemicalTreatment" -> 5000
          [] treatment = "Advanced" -> 3000
  IN FMul(FMul(water_impact, 8000), treatment_factor)

calculate_waste_impact(product, facility, operations) ==
  LET daily_waste ==
        UnwrapOr(operations.waste_management.solid_waste_generation, Fx(100))
      annual_waste == daily_waste * facility.operational_days_per_year
      facility_total_production ==
        facility.processing_capacity * facility.operational_days_per_year
      allocation_factor == FDiv(product.annual_production, facility_total_production)
  IN FMul(annual_waste, allocation_factor)

\* value per tonne
get_default_processing_impact(facility_type, product_type, impact) ==
  LET specific(gwp, energy, water) ==
        CASE impact = "Global warming" -> Some(gwp)
          [] impact = "Energy consumption" -> Some(energy)
          [] impact = "Water consumption" -> Some(water)
          [] OTHER -> None
      row ==
        CASE facility_type = "Mill" /\ product_type = "FlourMaize" ->
               specific(1500, Fx(80), Fx(2))
          [] facility_type = "Mill" /\ product_type = "RiceProcessed" ->
               specific(2500, Fx(120), Fx(4))
          [] facility_type = "PalmOilMill" /\ product_type = "PalmOil" ->
               specific(6000, Fx(200), Fx(8))
          [] facility_type = "CassivaProcessing" /\ product_type = "FlourCassava" ->
               specific(1000, Fx(60), Fx(3))
          [] facility_type = "Bakery" /\ product_type = "BakedGoods" ->
               specific(8000, Fx(300), 15000)
          [] facility_type = "FishProcessing" /\ product_type = "ProcessedFish" ->
               specific(12000, Fx(400), Fx(10))
          [] OTHER -> None
  IN IF IsSome(row) THEN Unwrap(row)
     ELSE CASE impact = "Global warming" -> 5000
            [] impact = "Energy consumption" -> Fx(150)
            [] impact = "Water consumption" -> Fx(3)
            [] impact = "Solid waste generation" -> Fx(50)
            [] impact = "Wastewater generation" -> Fx(2)
            [] OTHER -> 1000

calculate_generic_processing_impact(factors, product, facility, country, category) ==
  LET key == processing_factor_key(facility.facility_type, product.product_type,
                                   country, category)
  IN IF key \in DOMAIN factors
     THEN FMul(factors[key].value_per_tonne, product.annual_production)
     ELSE FMul(get_default_processing_impact(facility.facility_type,
                 product.product_type, category), product.annual_production)

\* 2024 - year on u32: a year after 2024 wraps to an age beyond every range
facility_age_factor(established_year) ==
  IF IsSome(established_year)
  THEN LET year == Unwrap(established_year)
       IN CASE year > 2024 -> 12000
            [] 2024 - year \in 0..5 -> 9000
            [] 2024 - year \in 6..15 -> 10000
            [] 2024 - year \in 16..30 -> 11000
            [] OTHER -> 12000
  ELSE 10000

apply_facility_adjustments(base_impact, facility, operations, category) ==
  LET cap == facility.processing_capacity
      scale_factor ==
        CASE cap < Fx(10) -> 12000
          [] cap >= Fx(10) /\ cap < Fx(100) -> 10000
          [] cap >= Fx(100) /\ cap < Fx(1000) -> 9000
          [] OTHER -> 8000
      age_factor == facility_age_factor(facility.established_year)
      location_factor ==
        CASE facility.location_type = "Industrial" -> 9500
          [] facility.location_type = "Urban" -> 10000
          [] facility.location_type = "PeriUrban" -> 10500
          [] facility.location_type = "Rural" -> 11000
      equipment_age == operations.equipment_efficiency.equipment_age
      efficiency_factor ==
        CASE equipment_age = "New" -> 9000
          [] equipment_age = "Recent" -> 9500
          [] equipment_age = "Mature" -> 10000
          [] equipment_age = "Old" -> 11500
          [] equipment_age = "VeryOld" -> 13000
      maintenance == operations.equipment_efficiency.maintenance_frequency
      maintenance_factor ==
        CASE maintenance \in {"Daily", "Weekly"} -> 9500
          [] maintenance = "Monthly" -> 10000
          [] maintenance = "Quarterly" -> 10500
          [] OTHER -> 11000
      adjusted_impact ==
        FMul(FMul(FMul(FMul(FMul(base_impact, scale_factor), age_factor),
                       location_factor), efficiency_factor), maintenance_factor)
  IN CASE category \in {"Energy consumption", "Global warming"} ->
            FMul(adjusted_impact,
              SCALE - FMul(FDiv(operations.energy_management.renewable_energy_percentage,
                                Fx(100)), 8000))
       [] category \in {"Water consumption", "Water scarcity"} ->
            FMul(adjusted_impact,
              Max(SCALE - Len(operations.water_management.water_conservation_measures)
                            * 500, 7000))
       [] OTHER -> adjusted_impact

calculate_product_impacts(factors, product, facility, operations, country) ==
  [category \in Range(get_processing_impact_categories) |->
     LET impact_value ==
           CASE category = "Global warming" ->
                  calculate_gwp_impact(product, facility, operations)
             [] category = "Energy consumption" ->
                  calculate_energy_impact(product, facility, operations)
             [] category = "Water consumption" ->
                  calculate_water_impact(product, facility, operations)
             [] category = "Wastewater generation" ->
                  calculate_wastewater_impact(product, facility, operations)
             [] category = "Solid waste generation" ->
                  calculate_waste_impact(product, facility, operations)
             [] OTHER ->
                  calculate_generic_processing_impact(factors, product, facility,
                                                      country, category)
         result(adjusted_impact) ==
           MidpointResult(adjusted_impact, get_processing_impact_unit(category),
             <<FMul(adjusted_impact, 7000), FMul(adjusted_impact, 13000)>>, 7000,
             <<<<W("Processing calculations")>>>>)
     IN result(apply_facility_adjustments(impact_value, facility, operations, category))]

\* ProcessingLCAEngine::aggregate_midpoint_results
processing_aggregate_midpoint_results(total, addition) ==
  LET value == total.value + addition.value
      two_std == Hypot(total.uncertainty_range[2] - total.uncertainty_range[1],
                       addition.uncertainty_range[2] - addition.uncertainty_range[1]) \div 2
  IN [total EXCEPT
        !.value = value,
        !.uncertainty_range = <<Max(value - two_std, 0), value + two_std>>,
        !.contributing_sources = @ \o addition.contributing_sources]

\* format!("{} ({} tonnes/year)", product.name, product.annual_production)
product_breakdown_key(product) ==
  product.name \o <<W("("), N(product.annual_production), W("tonnes/year)")>>

\* the product loop of perform_processing_assessment:
\* <<midpoint_impacts, breakdown_by_product>>
RECURSIVE aggregate_products(_, _, _, _)
aggregate_products(midpoint, breakdown, products, processing_assessment) ==
  IF products = <<>> THEN <<midpoint, breakdown>>
  ELSE LET aggregated(product_results) ==
             aggregate_products(
               [category \in DOMAIN midpoint |->
                  IF category \in DOMAIN product_results
                  THEN processing_aggregate_midpoint_results(midpoint[category],
                         product_results[category])
                  ELSE midpoint[category]],
               MapInsert(breakdown, product_breakdown_key(Head(products)), product_results),
               Tail(products), processing_assessment)
       IN aggregated(
            calculate_product_impacts(processing_engine.impact_factors,
              Head(products), processing_assessment.facility_profile,
              processing_assessment.processing_operations,
              processing_assessment.country))

\* the zeroed categories perform_processing_assessment starts from
initial_processing_midpoints ==
  [category \in Range(get_processing_impact_categories) |->
     MidpointResult(0, get_processing_impact_unit(category), <<0, 0>>, 0, <<>>)]

apply_processing_adjustments(impacts, operations, country) ==
  LET aware_factor == CASE country = "Ghana" -> Fx(20)
                        [] country = "Nigeria" -> Fx(25)
                        [] OTHER -> Fx(1)
      with_scarcity ==
        IF "Water consumption" \in DOMAIN impacts
        THEN LET water_result == impacts["Water consumption"]
             IN MapInsert(impacts, "Water scarcity",
                  MidpointResult(FMul(water_result.value, aware_factor), "m3 H2O-eq",
                    <<FMul(water_result.uncertainty_range[1], aware_factor),
                      FMul(water_result.uncertainty_range[2], aware_factor)>>,
                    water_result.data_quality_score,
                    <<<<W("AWARE regional factor:"), N(aware_factor)>>>>))
        ELSE impacts
  IN IF "Solid waste generation" \in DOMAIN with_scarcity
     THEN [with_scarcity EXCEPT !["Solid waste generation"].value =
             FMul(@, Max(SCALE - Len(operations.waste_management.recycling_programs)
                                   * 1000, 5000))]
     ELSE with_scarcity

\* the two EndpointResult records built from the endpoint sums; Human Health in
\* 1e-9 DALY and Resource Scarcity in 1e-2 USD, as in the production engine
processing_endpoint_results(human_health, resource_scarcity) ==
  [category \in {"Human Health", "Resource Scarcity"} |->
     CASE category = "Human Health" ->
            EndpointResult(human_health, "DALY",
              <<MulDiv(human_health, 1, 2), human_health * 2>>, Some(52000000), Some(15000))
       [] category = "Resource Scarcity" ->
            EndpointResult(resource_scarcity, "USD",
              <<MulDiv(resource_scarcity, 7, 10), MulDiv(resource_scarcity, 3, 2)>>,
              Some(850000), Some(13000))]

calculate_processing_endpoint_impacts(midpoint) ==
  processing_endpoint_results(
    MidpointTimes(midpoint, "Global warming", 250, 10000)
      + MidpointTimes(midpoint, "Air pollution", 1000, 10000),
    MidpointTimes(midpoint, "Energy consumption", 8, 10000)
      + MidpointTimes(midpoint, "Water scarcity", 18, 10000))

\* e^-n in millionths for a natural number n
RECURSIVE ExpNegInt(_)
ExpNegInt(n) ==
  IF n = 0 THEN MILLION
  ELSE IF n > 14 THEN 0
  ELSE MulDiv(ExpNegInt(n - 1), 367879, MILLION)

\* f64::exp(-t) in millionths for a fixed-point t >= 0
ExpNeg(t) ==
  MulDiv(MulDiv(MILLION, SCALE, FExp(t % SCALE)), ExpNegInt(t \div SCALE), MILLION)

\* 1.0 / (1.0 + (-x).exp()) in millionths
Logistic(x) ==
  IF x >= 0 THEN MulDiv(MILLION, MILLION, MILLION + ExpNeg(x))
  ELSE LET e == ExpNeg(-x) IN MulDiv(e, MILLION, MILLION + e)

\* the endpoint value in its own unit (DALY, USD) as a fixed-point number
endpoint_value(category, result) ==
  IF category = "Human Health" THEN MulDiv(result.value, 1, 100000)
  ELSE result.value * 100

processing_weighting_factors ==
  [c \in {"Human Health", "Resource Scarcity"} |->
     IF c = "Human Health" THEN 600 ELSE 400]

calculate_processing_single_score(endpoint) ==
  LET weighted_cats == DOMAIN endpoint \cap DOMAIN processing_weighting_factors
      weighted ==
        [c \in weighted_cats |->
           MulDiv(endpoint_value(c, endpoint[c]), processing_weighting_factors[c], 1000)]
      single_score == SumOver(weighted, weighted_cats)
      normalized_score == Logistic(MulDiv(single_score - Fx(50), 1, 10))
  IN SingleScoreResult(normalized_score,
       "Processing Environmental Impact Index (0-1, lower is better)",
       <<MulDiv(normalized_score, 8, 10), MulDiv(normalized_score, 12, 10)>>,
       processing_weighting_factors,
       <<W("Processing-adapted African LCA methodology")>>)

-----------------------------------------------------------------------------
(* Inputs of the production pipeline *)

Rice == FoodItem(Str("Rice"), Fx(2), "Cereals", Some(Str("Rice")), Some("Intensive"), Some("WetSeason"), Some(Fx(1)))
Maize == FoodItem(Str("Maize"), Fx(1), "Cereals", None, None, None, None)
MaizeField == FoodItem(Str("Maize"), Fx(4), "Cereals", None, Some("Organic"), None, Some(Fx(1)))
Beef == FoodItem(Str("Beef"), Fx(2), "Meat", None, Some("Extensive"), None, None)

FertilizerApplication(fertilizer_type, npk_ratio, application_rate, applications_per_season) ==
  [fertilizer_type |-> fertilizer_type, npk_ratio |-> npk_ratio,
   application_rate |-> application_rate,
   applications_per_season |-> applications_per_season]

ManagementPractices(soil_management, fertilization, water_management, pest_management) ==
  [soil_management |-> soil_management, fertilization |-> fertilization,
   water_management |-> water_management, pest_management |-> pest_management]

\* compost, one conservation practice, urea by plan, drip irrigation, IPM
CarefulPractices ==
  ManagementPractices(
    [uses_compost |-> TRUE, conservation_practices |-> <<Str("Mulching")>>],
    [uses_fertilizers |-> TRUE,
     fertilizer_applications |-> <<FertilizerApplication("Urea", None, Fx(100), 1)>>,
     soil_test_based |-> FALSE, follows_nutrient_plan |-> TRUE],
    [irrigation_system |-> Some("Drip irrigation"),
     water_conservation_practices |-> <<Str("Rainwater harvesting")>>],
    [uses_ipm |-> TRUE, pesticides_used |-> <<>>])

\* nothing applied, rainfed
PlainPractices ==
  ManagementPractices(
    [uses_compost |-> FALSE, conservation_practices |-> <<>>],
    [uses_fertilizers |-> FALSE, fertilizer_applications |-> <<>>,
     soil_test_based |-> FALSE, follows_nutrient_plan |-> FALSE],
    [irrigation_system |-> None, water_conservation_practices |-> <<>>],
    [uses_ipm |-> FALSE, pesticides_used |-> <<>>])

DieselUse ==
  [equipment |-> <<>>, energy_sources |-> <<>>,
   fuel_consumption |->
     <<[fuel_type |-> "Diesel", monthly_consumption |-> Fx(10), primary_use |-> "Plowing"]>>]

Assessments ==
  {Assessment("Ghana", None, <<Maize, Beef>>, None, None),
   Assessment("Ghana", None, <<Rice, Maize>>, None, None),
   Assessment("Global", None, <<Beef>>, None, None),
   Assessment("Nigeria", Some(Str("Northern")), <<Rice>>, Some(CarefulPractices),
              Some(DieselUse)),
   Assessment("Ghana", None, <<MaizeField>>, Some(PlainPractices), None)}

\* a small factor data set, as DataLoader::get_factors provides one
FactorBatch ==
  <<ImpactFactor("Cereals", "Ghana", Some(Str("Rice")), "Soil degradation", 3000,
      <<W("Ghana"), W("rice LCA")>>, <<2000, 4000>>, PedigreeScore(2, 2, 1, 1, 2)),
    ImpactFactor("Cereals", "Global", None, "Water consumption", 12000,
      <<W("Global"), W("cereal average")>>, <<8000, 16000>>,
      PedigreeScore(3, 3, 3, 4, 3)),
    ImpactFactor("Meat", "Global", None, "Global warming", 300000,
      <<W("Global"), W("beef average")>>, <<200000, 400000>>,
      PedigreeScore(2, 3, 3, 4, 3))>>

\* maps for load_regional_factors / load_climate_adjustments; the regional
\* factors differ from the defaults built into apply_regional_adjustments
RegionalFactorData ==
  [k \in {"Ghana_water_scarcity", "Nigeria_north_water_scarcity",
          "Nigeria_south_water_scarcity"} |->
     CASE k = "Ghana_water_scarcity" -> Fx(25)
       [] k = "Nigeria_north_water_scarcity" -> Fx(32)
       [] k = "Nigeria_south_water_scarcity" -> Fx(15)]

ClimateAdjustmentData ==
  [k \in {"tropical_decomposition_factor", "methane_emission_factor",
          "wet_season_factor", "dry_season_factor"} |->
     CASE k = "tropical_decomposition_factor" -> 13000
       [] k = "methane_emission_factor" -> 12000
       [] k = "wet_season_factor" -> 15000
       [] k = "dry_season_factor" -> 7000]


-----------------------------------------------------------------------------
(* Inputs of the processing pipeline *)

ProcessingStep(step_name, energy_intensity, water_usage, emissions_factor) ==
  [step_name |-> step_name, energy_intensity |-> energy_intensity,
   water_usage |-> water_usage, emissions_factor |-> emissions_factor]

ProcessedProduct(name, product_type, annual_production, raw_material_inputs, processing_steps) ==
  [name |-> name, product_type |-> product_type,
   annual_production |-> annual_production,
   raw_material_inputs |-> raw_material_inputs, processing_steps |-> processing_steps]

ProcessingFacilityProfile(company_name, facility_type, processing_capacity, operational_days_per_year, established_year, location_type) ==
  [company_name |-> company_name, facility_type |-> facility_type,
   processing_capacity |-> processing_capacity,
   operational_days_per_year |-> operational_days_per_year,
   established_year |-> established_year, location_type |-> location_type]

ProcessingOperations(energy_management, water_management, waste_management, equipment_efficiency) ==
  [energy_management |-> energy_management, water_management |-> water_management,
   waste_management |-> waste_management, equipment_efficiency |-> equipment_efficiency]

ProcessingAssessment(facility_profile, processing_operations, processed_products, country) ==
  [facility_profile |-> facility_profile,
   processing_operations |-> processing_operations,
   processed_products |-> processed_products, country |-> country, region |-> None,
   results |-> None]

MaizeFlour ==
  ProcessedProduct(Str("Maize flour"), "FlourMaize", Fx(100), <<Str("Maize")>>,
    <<ProcessingStep(Str("Cleaning"), Fx(10), Fx(100), None),
      ProcessingStep(Str("Milling"), Fx(40), Fx(100), Some(Fx(2)))>>)

MilledRice ==
  ProcessedProduct(Str("Milled rice"), "RiceProcessed", Fx(50), <<Str("Paddy")>>,
    <<ProcessingStep(Str("Hulling"), Fx(30), Fx(400), None)>>)

SmokedFish ==
  ProcessedProduct(Str("Smoked fish"), "ProcessedFish", Fx(5), <<>>,
    <<ProcessingStep(Str("Smoking"), Fx(20), Fx(300), Some(Fx(1)))>>)

Bread == ProcessedProduct(Str("Bread"), "BakedGoods", Fx(20), <<>>, <<>>)

\* a grid-powered urban mill with landfill disposal
MillOperations ==
  ProcessingOperations(
    [primary_energy_source |-> "GridElectricity", monthly_fuel_consumption |-> None,
     renewable_energy_percentage |-> Fx(20)],
    [water_conservation_measures |-> <<>>, wastewater_treatment |-> "None"],
    [solid_waste_generation |-> Some(Fx(100)), organic_waste_percentage |-> Fx(60),
     waste_disposal_method |-> "Landfill", recycling_programs |-> <<>>],
    [equipment_age |-> "Mature", maintenance_frequency |-> "Monthly"])

\* a diesel-powered rural plant that digests its waste
FishOperations ==
  ProcessingOperations(
    [primary_energy_source |-> "DieselGenerator", monthly_fuel_consumption |-> None,
     renewable_energy_percentage |-> 0],
    [water_conservation_measures |-> <<Str("Recycling"), Str("Metering"), Str("Reuse")>>,
     wastewater_treatment |-> "BiologicalTreatment"],
    [solid_waste_generation |-> None, organic_waste_percentage |-> Fx(80),
     waste_disposal_method |-> "AnaerobicDigestion",
     recycling_programs |-> <<Str("Plastics"), Str("Offal")>>],
    [equipment_age |-> "Old", maintenance_frequency |-> "Annual"])

\* a solar-powered industrial bakery
BakeryOperations ==
  ProcessingOperations(
    [primary_energy_source |-> "SolarPower", monthly_fuel_consumption |-> None,
     renewable_energy_percentage |-> Fx(100)],
    [water_conservation_measures |-> <<Str("Metering")>>,
     wastewater_treatment |-> "Advanced"],
    [solid_waste_generation |-> Some(Fx(20)), organic_waste_percentage |-> Fx(90),
     waste_disposal_method |-> "Composting", recycling_programs |-> <<>>],
    [equipment_age |-> "New", maintenance_frequency |-> "Weekly"])

\* a solar-powered bakery that digests its organic waste
DigesterOperations ==
  ProcessingOperations(
    [primary_energy_source |-> "SolarPower", monthly_fuel_consumption |-> None,
     renewable_energy_percentage |-> Fx(100)],
    [water_conservation_measures |-> <<Str("Metering")>>,
     wastewater_treatment |-> "Advanced"],
    [solid_waste_generation |-> Some(Fx(100)), organic_waste_percentage |-> Fx(90),
     waste_disposal_method |-> "AnaerobicDigestion", recycling_programs |-> <<>>],
    [equipment_age |-> "New", maintenance_frequency |-> "Weekly"])

ProcessingAssessments ==
  {ProcessingAssessment(
     ProcessingFacilityProfile(Str("Accra Mills"), "Mill", Fx(50), 300, Some(2010), "Urban"),
     MillOperations, <<MaizeFlour, MilledRice>>, "Ghana"),
   ProcessingAssessment(
     ProcessingFacilityProfile(Str("Delta Fish"), "FishProcessing", Fx(5), 250, None, "Rural"),
     FishOperations, <<SmokedFish>>, "Nigeria"),
   ProcessingAssessment(
     ProcessingFacilityProfile(Str("Sun Bakery"), "Bakery", Fx(150), 300, Some(2022),
                               "Industrial"),
     BakeryOperations, <<Bread>>, "Global"),
   ProcessingAssessment(
     ProcessingFacilityProfile(Str("Green Bakery"), "Bakery", Fx(150), 300, Some(2022),
                               "Industrial"),
     DigesterOperations, <<Bread>>, "Ghana")}

\* a small factor data set, as ProcessingDataLoader::get_factors provides one
ProcessingFactorBatch ==
  <<ProcessingImpactFactor("Mill", "FlourMaize", "Ghana", "Air pollution", 300),
    ProcessingImpactFactor("Mill", "FlourMaize", "Ghana", "Global warming", 1200),
    ProcessingImpactFactor("FishProcessing", "ProcessedFish", "Nigeria", "Land use",
                           Fx(2))>>

ProcessingBenchmarkBatch ==
  <<[facility_type |-> "Mill", capacity_range |-> "Medium", country |-> "Ghana",
     benchmarks |-> <<>>]>>

-----------------------------------------------------------------------------
(* The engines and one caller: load data, submit an assessment, run it *)

Init ==
  /\ InitEngine
  /\ InitProcessingEngine
  /\ InitRun
  /\ best = NoCall

Idle == pc = "idle"

\* engine.load_impact_factors(data_loader.get_factors().clone())
LoadFactorBatch ==
  /\ Idle /\ the_assessment = NoAssessment /\ impact_factors = <<>>
  /\ impact_factors' = load_impact_factors(impact_factors, FactorBatch)
  /\ UNCHANGED <<methodology, regional_factors, climate_adjustments, processing_engine,
                 runVars, best>>

\* load_regional_factors and load_climate_adjustments with the DataLoader's maps
LoadRegionalData ==
  /\ Idle /\ the_assessment = NoAssessment
  /\ regional_factors = <<>> /\ climate_adjustments = <<>>
  /\ regional_factors' = RegionalFactorData
  /\ climate_adjustments' = ClimateAdjustmentData
  /\ UNCHANGED <<methodology, impact_factors, processing_engine, runVars, best>>

\* load_impact_factors and load_benchmarks of the processing engine
LoadProcessingData ==
  /\ Idle /\ the_assessment = NoAssessment /\ processing_engine.impact_factors = <<>>
  /\ processing_engine' =
       [processing_engine EXCEPT
          !.impact_factors = processing_load_impact_factors(@, ProcessingFactorBatch),
          !.benchmarks = load_benchmarks(@, ProcessingBenchmarkBatch)]
  /\ UNCHANGED <<methodology, impact_factors, regional_factors, climate_adjustments,
                 runVars, best>>

\* impl Clone for AfricanLCAEngine: the maps are cloned, the calculator is new
CloneEngine ==
  /\ Idle /\ history # <<>>
  /\ lci_inventory' = <<>>
  /\ \E seed \in HashSeeds : hash_seed' = seed
  /\ UNCHANGED <<engineVars, prior_inventory, the_assessment, pc, entry,
                 midpoint_impacts, breakdown_by_food, endpoint_impacts, history, best>>

\* the caller builds an Assessment
SubmitAssessment ==
  /\ Idle
  /\ \E a \in Assessments : the_assessment' = a
  /\ pc' = "ready"
  /\ UNCHANGED <<engineVars, lci_inventory, hash_seed, prior_inventory, entry,
                 midpoint_impacts, breakdown_by_food, endpoint_impacts, history, best>>

\* perform_assessment or perform_comprehensive_assessment is called; Step 1
CalculateInventory ==
  /\ pc = "ready"
  /\ \E f \in {"perform_assessment", "perform_comprehensive_assessment"} :
       entry' = IF f = "perform_assessment" /\ ~IsSome(the_assessment.management_practices)
                THEN "hybrid" ELSE "comprehensive"
  /\ prior_inventory' = lci_inventory
  /\ lci_inventory' = calculate_inventory(lci_inventory, the_assessment)
  /\ pc' = "inventory"
  /\ UNCHANGED <<engineVars, hash_seed, the_assessment, midpoint_impacts,
                 breakdown_by_food, endpoint_impacts, history, best>>

\* calculate_extended_midpoint_impacts(&inventory, assessment)
Characterize ==
  /\ pc = "inventory"
  /\ midpoint_impacts' =
       calculate_extended_midpoint_impacts(lci_inventory,
         iteration_order(lci_inventory, hash_seed), the_assessment)
  /\ prior_inventory' = <<>>
  /\ pc' = "characterized"
  /\ UNCHANGED <<engineVars, lci_inventory, hash_seed, the_assessment, entry,
                 breakdown_by_food, endpoint_impacts, history, best>>

\* perform_assessment: the per-food loop that supplements the zero categories
HybridMerge ==
  /\ pc = "characterized" /\ entry = "hybrid"
  /\ LET r == hybrid_merge(midpoint_impacts, <<>>, the_assessment.foods,
                           the_assessment.country)
     IN /\ midpoint_impacts' = r[1]
        /\ breakdown_by_food' = r[2]
  /\ pc' = "merged"
  /\ UNCHANGED <<engineVars, lci_inventory, hash_seed, prior_inventory,
                 the_assessment, entry, endpoint_impacts, history, best>>

\* apply_regional_adjustments: after the merge (hybrid), before the breakdown
\* (comprehensive)
RegionalAdjustments ==
  /\ pc = IF entry = "hybrid" THEN "merged" ELSE "characterized"
  /\ midpoint_impacts' = apply_regional_adjustments(midpoint_impacts,
                           the_assessment.country, the_assessment.region)
  /\ pc' = IF entry = "hybrid" THEN "adjusted" ELSE "regional"
  /\ UNCHANGED <<engineVars, lci_inventory, hash_seed, prior_inventory,
                 the_assessment, entry, breakdown_by_food, endpoint_impacts, history,
                 best>>

\* perform_comprehensive_assessment: Step 4, the per-crop breakdown
FoodBreakdown ==
  /\ pc = "regional" /\ entry = "comprehensive"
  /\ breakdown_by_food' = comprehensive_breakdown(<<>>, the_assessment.foods,
                            the_assessment.country, the_assessment.management_practices)
  /\ pc' = "adjusted"
  /\ UNCHANGED <<engineVars, lci_inventory, hash_seed, prior_inventory,
                 the_assessment, entry, midpoint_impacts, endpoint_impacts, history,
                 best>>

EndpointImpacts ==
  /\ pc = "adjusted"
  /\ endpoint_impacts' = calculate_enhanced_endpoint_impacts(midpoint_impacts)
  /\ pc' = "endpoints"
  /\ UNCHANGED <<engineVars, lci_inventory, hash_seed, prior_inventory,
                 the_assessment, entry, midpoint_impacts, breakdown_by_food, history,
                 best>>

\* the single score, assessment.results = Some(LCAResults {..}), and the return:
\* the locals are moved into the results
StoreResults ==
  /\ pc = "endpoints"
  /\ LET results == LCAResults(midpoint_impacts, endpoint_impacts,
                      calculate_enhanced_single_score(endpoint_impacts),
                      assess_data_quality(the_assessment.foods, the_assessment.country),
                      breakdown_by_food)
     IN /\ the_assessment' = store_results(the_assessment, results)
        /\ history' = <<[input |-> the_assessment, entry |-> entry,
                         seed |-> hash_seed, results |-> results]>>
  /\ midpoint_impacts' = <<>>
  /\ breakdown_by_food' = <<>>
  /\ endpoint_impacts' = <<>>
  /\ entry' = "none"
  /\ pc' = "idle"
  /\ UNCHANGED <<engineVars, lci_inventory, hash_seed, prior_inventory, best>>

\* the caller builds a ProcessingAssessment
SubmitProcessingAssessment ==
  /\ Idle
  /\ \E a \in ProcessingAssessments : the_assessment' = a
  /\ pc' = "p_ready"
  /\ UNCHANGED <<engineVars, lci_inventory, hash_seed, prior_inventory, entry,
                 midpoint_impacts, breakdown_by_food, endpoint_impacts, history, best>>

\* perform_processing_assessment: the zeroed categories and the product loop
ProcessingProducts ==
  /\ pc = "p_ready"
  /\ entry' = "processing"
  /\ LET r == aggregate_products(initial_processing_midpoints, <<>>,
                the_assessment.processed_products, the_assessment)
     IN /\ midpoint_impacts' = r[1]
        /\ breakdown_by_food' = r[2]
  /\ pc' = "p_aggregated"
  /\ UNCHANGED <<engineVars, lci_inventory, hash_seed, prior_inventory,
                 the_assessment, endpoint_impacts, history, best>>

ProcessingAdjustments ==
  /\ pc = "p_aggregated"
  /\ midpoint_impacts' = apply_processing_adjustments(midpoint_impacts,
                           the_assessment.processing_operations, the_assessment.country)
  /\ pc' = "p_adjusted"
  /\ UNCHANGED <<engineVars, lci_inventory, hash_seed, prior_inventory,
                 the_assessment, entry, breakdown_by_food, endpoint_impacts, history,
                 best>>

ProcessingEndpoints ==
  /\ pc = "p_adjusted"
  /\ endpoint_impacts' = calculate_processing_endpoint_impacts(midpoint_impacts)
  /\ pc' = "p_endpoints"
  /\ UNCHANGED <<engineVars, lci_inventory, hash_seed, prior_inventory,
                 the_assessment, entry, midpoint_impacts, breakdown_by_food, history,
                 best>>

\* the single score, assessment.results = Some(LCAResults {..}), and the return
StoreProcessingResults ==
  /\ pc = "p_endpoints"
  /\ LET results == LCAResults(midpoint_impacts, endpoint_impacts,
                      calculate_processing_single_score(endpoint_impacts),
                      assess_processing_data_quality(the_assessment.processed_products),
                      breakdown_by_food)
     IN the_assessment' = store_results(the_assessment, results)
  /\ midpoint_impacts' = <<>>
  /\ breakdown_by_food' = <<>>
  /\ endpoint_impacts' = <<>>
  /\ entry' = "none"
  /\ pc' = "idle"
  /\ UNCHANGED <<engineVars, lci_inventory, hash_seed, prior_inventory, history, best>>

Next ==
  \/ LoadFactorBatch
  \/ LoadRegionalData
  \/ LoadProcessingData
  \/ CloneEngine
  \/ SubmitAssessment
  \/ CalculateInventory
  \/ Characterize
  \/ HybridMerge
  \/ RegionalAdjustments
  \/ FoodBreakdown
  \/ EndpointImpacts
  \/ StoreResults
  \/ SubmitProcessingAssessment
  \/ ProcessingProducts
  \/ ProcessingAdjustments
  \/ ProcessingEndpoints
  \/ StoreProcessingResults

Spec == Init /\ [][Next]_vars

-----------------------------------------------------------------------------
(* The single-score composers on their own: any endpoint values *)

HumanHealthValues == {-52000000, 0, 26000000, 520000000}
EcosystemQualityValues == {-410000, 0, 410000, 41000000}
ResourceScarcityValues == {-850000, 0, 425000, 85000000}
ProcessingHealthValues == {-1000000000, 0, 50000000, 1000000000}
ProcessingScarcityValues == {-10000000, 0, 4000, 12500, 20000, 10000000}

InitScore ==
  /\ methodology \in Methodologies
  /\ impact_factors = <<>>
  /\ regional_factors = <<>>
  /\ climate_adjustments = <<>>
  /\ InitProcessingEngine
  /\ InitRun
  /\ best = NoCall

ScoreProduction ==
  /\ \E hh \in HumanHealthValues, eq \in EcosystemQualityValues,
        rs \in ResourceScarcityValues :
       /\ endpoint_impacts' = enhanced_endpoint_results(hh, eq, rs)
       /\ best' = [called |-> TRUE, function |-> "calculate_enhanced_single_score",
                   result |-> calculate_enhanced_single_score(
                                enhanced_endpoint_results(hh, eq, rs))]
  /\ UNCHANGED <<engineVars, lci_inventory, hash_seed, prior_inventory,
                 the_assessment, pc, entry, midpoint_impacts, breakdown_by_food,
                 history>>

ScoreProcessing ==
  /\ \E hh \in ProcessingHealthValues, rs \in ProcessingScarcityValues :
       /\ endpoint_impacts' = processing_endpoint_results(hh, rs)
       /\ best' = [called |-> TRUE, function |-> "calculate_processing_single_score",
                   result |-> calculate_processing_single_score(
                                processing_endpoint_results(hh, rs))]
  /\ UNCHANGED <<engineVars, lci_inventory, hash_seed, prior_inventory,
                 the_assessment, pc, entry, midpoint_impacts, breakdown_by_food,
                 history>>

NextScore ==
  \/ ScoreProduction
  \/ ScoreProcessing

SpecScore == InitScore /\ [][NextScore]_vars

-----------------------------------------------------------------------------
-----------------------------------------------------------------------------
(* Single calls of the engines' functions on arguments of any shape *)

\* a MidpointResult of a given value: range 0.8 .. 1.2 of it
SampleResult(value, unit, source) ==
  MidpointResult(value, Str(unit), <<FMul(value, 8000), FMul(value, 12000)>>, 7500,
                 <<Str(source)>>)

SampleWaterValues == {0, Fx(3), 12345}

\* impact maps with and without "Water consumption" and "Water scarcity"
AdjustmentInputs ==
  {<<>>,
   "Global warming" :> SampleResult(Fx(2), "kg CO2-eq", "CO2"),
   "Water scarcity" :> SampleResult(Fx(9), "m3 H2O-eq", "earlier estimate")
     @@ "Global warming" :> SampleResult(Fx(2), "kg CO2-eq", "CO2")}
  \cup {"Water consumption" :> SampleResult(v, "m3", "irrigation") :
          v \in SampleWaterValues}
  \cup {"Water consumption" :> SampleResult(v, "m3", "irrigation")
          @@ "Water scarcity" :> SampleResult(Fx(9), "m3 H2O-eq", "earlier estimate")
          @@ "Land use" :> SampleResult(Fx(10000), "m2a crop-eq", "field") :
          v \in SampleWaterValues}

AdjustmentCountries == {"Ghana", "Nigeria", "Kenya", "Global"}
AdjustmentRegions ==
  {None, Some(Str("Northern")), Some(Str("Northern") \o Str("Region")),
   Some(Str("Southern"))}

\* an engine before or after load_regional_factors
InitUnit ==
  /\ methodology = MainMethodology
  /\ impact_factors = <<>>
  /\ regional_factors \in {<<>>, RegionalFactorData}
  /\ climate_adjustments = <<>>
  /\ InitProcessingEngine
  /\ InitRun
  /\ best = NoCall

CallRegionalAdjustments ==
  /\ \E impacts \in AdjustmentInputs, country \in AdjustmentCountries,
        region \in AdjustmentRegions :
       best' = [called |-> TRUE, function |-> "apply_regional_adjustments",
                impacts |-> impacts, country |-> country, region |-> region,
                result |-> apply_regional_adjustments(impacts, country, region)]
  /\ UNCHANGED <<engineVars, runVars>>

\* results to combine: a value and a range of the value minus and plus a spread,
\* the lower bound not below zero
SampleValues == {0, Fx(1), Fx(5), Fx(40)}
SampleSpreads == {0, Fx(1), Fx(4), Fx(30)}
AggregateInputs ==
  {MidpointResult(v, Str("kg CO2-eq"), <<Max(v - s, 0), v + s>>, 7500, <<Str("item")>>) :
     v \in SampleValues, s \in SampleSpreads}

CallAggregate ==
  /\ \E engine \in {"production", "processing"},
        total \in AggregateInputs, addition \in AggregateInputs :
       best' = [called |-> TRUE, function |-> "aggregate_midpoint_results",
                engine |-> engine, total |-> total, addition |-> addition,
                result |-> IF engine = "production"
                           THEN aggregate_midpoint_results(total, addition)
                           ELSE processing_aggregate_midpoint_results(total, addition)]
  /\ UNCHANGED <<engineVars, runVars>>

NextUnit ==
  \/ CallRegionalAdjustments
  \/ CallAggregate

SpecUnit == InitUnit /\ [][NextUnit]_vars

-----------------------------------------------------------------------------
(* The inventory on its own: any sequence of add_inventory_item calls of a run *)

MaxAdds == 3

\* contributions: two substances, two compartments, two quantities with a source
InventoryContributions ==
  {InventoryItem(substance, variant[1], Str("kg"), compartment, Str(variant[2])) :
     substance \in {SubstanceCO2, SubstanceWater},
     compartment \in {"Air", "Water"},
     variant \in {<<Fx(1), "Urea application">>, <<Fx(2), "Diesel combustion">>}}

InitInventory ==
  /\ InitEngine
  /\ InitProcessingEngine
  /\ InitRun
  /\ best = NoCall

\* the items added since the inventory was last cleared
added_items == IF best.called THEN best.added ELSE <<>>

\* calculate_inventory begins: self.inventory.clear()
ClearInventory ==
  /\ lci_inventory' = inventory_clear(lci_inventory)
  /\ best' = NoCall
  /\ UNCHANGED <<engineVars, hash_seed, prior_inventory, the_assessment, pc, entry,
                 midpoint_impacts, breakdown_by_food, endpoint_impacts, history>>

\* one self.add_inventory_item(item) of the running calculation
AddInventoryItem ==
  /\ Len(added_items) < MaxAdds
  /\ \E item \in InventoryContributions :
       /\ lci_inventory' = add_inventory_item(lci_inventory, item)
       /\ best' = [called |-> TRUE, function |-> "add_inventory_item",
                   added |-> Append(added_items, item),
                   before |-> lci_inventory]
  /\ UNCHANGED <<engineVars, hash_seed, prior_inventory, the_assessment, pc, entry,
                 midpoint_impacts, breakdown_by_food, endpoint_impacts, history>>

NextInventory ==
  \/ ClearInventory
  \/ AddInventoryItem

SpecInventory == InitInventory /\ [][NextInventory]_vars

-----------------------------------------------------------------------------
(* The factor repositories on their own: any sequence of load_impact_factors *)

MaxLoads == 3

\* factors as a data file can hold them: with and without a crop, and with an
\* impact category whose name contains an underscore
RepositoryFactors ==
  {ImpactFactor("Cereals", "Ghana", cr, ic, FactorVariant(v).value,
                FactorVariant(v).source, FactorVariant(v).range,
                FactorVariant(v).pedigree) :
     cr \in LookupCrops, ic \in {"Global warming", "Rice_Global warming"},
     v \in {1, 2}}

ProcessingRepositoryFactors ==
  {ProcessingImpactFactor("Mill", pt, "Ghana", ic, value) :
     pt \in {"FlourMaize", "MilledRice"},
     ic \in {"Global warming", "Rice_Global warming"}, value \in {300, 1200}}

InitLoad ==
  /\ InitEngine
  /\ InitProcessingEngine
  /\ InitRun
  /\ best = [called |-> FALSE, loaded |-> <<>>, processing_loaded |-> <<>>]

\* AfricanLCAEngine::load_impact_factors with a Vec of one or two factors
LoadFactors ==
  /\ \E factors \in {<<f>> : f \in RepositoryFactors}
                      \cup {<<f, g>> : f \in RepositoryFactors, g \in RepositoryFactors} :
       /\ Len(best.loaded) + Len(best.processing_loaded) + Len(factors) <= MaxLoads
       /\ impact_factors' = load_impact_factors(impact_factors, factors)
       /\ best' = [best EXCEPT !.called = TRUE, !.loaded = @ \o factors]
  /\ UNCHANGED <<methodology, regional_factors, climate_adjustments, processing_engine,
                 runVars>>

\* ProcessingLCAEngine::load_impact_factors with a Vec of one factor
LoadProcessingFactors ==
  /\ Len(best.loaded) + Len(best.processing_loaded) < MaxLoads
  /\ \E f \in ProcessingRepositoryFactors :
       /\ processing_engine' =
            [processing_engine EXCEPT
               !.impact_factors = processing_load_impact_factors(@, <<f>>)]
       /\ best' = [best EXCEPT !.called = TRUE, !.processing_loaded = Append(@, f)]
  /\ UNCHANGED <<methodology, impact_factors, regional_factors, climate_adjustments,
                 runVars>>

NextLoad ==
  \/ LoadFactors
  \/ LoadProcessingFactors

SpecLoad == InitLoad /\ [][NextLoad]_vars

-----------------------------------------------------------------------------
(* main.rs: building an assessment from an input document.  Of a document the  *)
(* enum-valued fields are kept, each a string or absent; of the assessment    *)
(* built, the variants parsed from them.                                      *)

Ok(value) == [ok |-> TRUE, value |-> value]
Err(error) == [ok |-> FALSE, error |-> error]

\* the strings a match of the parse functions names, by kind of enum
KnownVariants ==
  [country |-> {"Ghana", "Nigeria", "Global"},
   food_category |-> {"Cereals", "Legumes", "Vegetables", "Fruits", "Meat", "Poultry",
                      "Fish", "Dairy", "Eggs", "Oils", "Nuts", "Roots", "Other"},
   farm_type |-> {"Smallholder", "SmallScale", "MediumScale", "Commercial",
                  "Cooperative", "MixedLivestock"},
   farming_system |-> {"Subsistence", "SemiCommercial", "Commercial", "Organic",
                       "Agroecological", "Conventional", "IntegratedFarming"},
   production_system |-> {"Rainfed", "Irrigated", "Smallholder", "Intensive",
                          "Extensive", "Agroforestry", "Organic", "Conventional"},
   cropping_pattern |-> {"Monoculture", "Intercropping", "RelayCropping",
                         "Agroforestry", "CropRotation"},
   soil_type |-> {"Sandy", "Clay", "Loam", "SandyLoam", "ClayLoam", "SiltLoam",
                  "Lateritic", "Volcanic"},
   facility_type |-> {"Mill", "Bakery", "CassivaProcessing", "RiceProcessing",
                      "PalmOilMill", "CocoaProcessing", "FishProcessing",
                      "MeatProcessing", "DairyProcessing", "FruitProcessing",
                      "VegetableProcessing", "General"},
   location_type |-> {"Urban", "PeriUrban", "Rural", "Industrial"},
   quality_grade |-> {"Premium", "Standard", "Basic", "Industrial"},
   market_destination |-> {"Local", "Regional", "National", "Export", "Mixed"}]

\* a match whose last arm is _ => Err(format!("Unknown <kind>: {}", s))
parse_or_unknown(kind, label, s) ==
  IF s \in KnownVariants[kind] THEN Ok(s) ELSE Err(<<W("Unknown " \o label \o ":"), W(s)>>)

parse_country(s) == parse_or_unknown("country", "country", s)
parse_food_category(s) == parse_or_unknown("food_category", "food category", s)
parse_farm_type(s) == parse_or_unknown("farm_type", "farm type", s)
parse_farming_system(s) == parse_or_unknown("farming_system", "farming system", s)
parse_production_system(s) ==
  parse_or_unknown("production_system", "production system", s)
parse_cropping_pattern(s) == parse_or_unknown("cropping_pattern", "cropping pattern", s)
parse_soil_type(s) == parse_or_unknown("soil_type", "soil type", s)
parse_facility_type(s) == parse_or_unknown("facility_type", "facility type", s)
parse_location_type(s) == parse_or_unknown("location_type", "location type", s)

\* _ => Ok(QualityGrade::Standard)
parse_quality_grade(s) ==
  IF s \in KnownVariants.quality_grade THEN Ok(s) ELSE Ok("Standard")

\* _ => Ok(MarketDestination::Local)
parse_market_destination(s) ==
  IF s \in KnownVariants.market_destination THEN Ok(s) ELSE Ok("Local")

\* Option<&str>.and_then(|s| parse(s).ok())
AndThenOk(field, parse(_)) ==
  IF IsSome(field) /\ parse(Unwrap(field)).ok THEN Some(parse(Unwrap(field)).value)
  ELSE None

parse_food_item(food_value) ==
  LET category == parse_food_category(food_value.category)
  IN IF ~category.ok THEN category
     ELSE Ok([category |-> category.value,
              production_system |->
                AndThenOk(food_value.production_system, parse_production_system),
              cropping_pattern |->
                AndThenOk(food_value.cropping_pattern, parse_cropping_pattern)])

\* the soil_type of parse_management_practices
parse_management_practices(mp) ==
  Ok([soil_type |-> AndThenOk(mp.soil_type, parse_soil_type)])

create_comprehensive_assessment(input) ==
  LET country == parse_country(input.country)
      farm_type == parse_farm_type(UnwrapOr(input.farm_type, "Smallholder"))
      farming_system ==
        parse_farming_system(UnwrapOr(input.primary_farming_system, "Subsistence"))
      management_practices == parse_management_practices(input.management_practices)
      food == parse_food_item(input.food)
  IN IF ~country.ok THEN country
     ELSE IF ~farm_type.ok THEN farm_type
     ELSE IF ~farming_system.ok THEN farming_system
     ELSE IF ~management_practices.ok THEN management_practices
     ELSE IF ~food.ok THEN food
     ELSE Ok([country |-> country.value,
              farm_profile |-> [farm_type |-> farm_type.value,
                                primary_farming_system |-> farming_system.value],
              management_practices |-> management_practices.value,
              foods |-> <<food.value>>])

create_processing_assessment(input) ==
  LET country == parse_country(input.country)
      facility_type == parse_facility_type(UnwrapOr(input.facility_type, "General"))
      location_type == parse_location_type(UnwrapOr(input.location_type, "Rural"))
      quality_grade == parse_quality_grade(UnwrapOr(input.quality_grade, "Standard"))
      market_destination ==
        parse_market_destination(UnwrapOr(input.market_destination, "Local"))
  IN IF ~country.ok THEN country
     ELSE IF ~facility_type.ok THEN facility_type
     ELSE IF ~location_type.ok THEN location_type
     ELSE IF ~quality_grade.ok THEN quality_grade
     ELSE IF ~market_destination.ok THEN market_destination
     ELSE Ok([country |-> country.value,
              facility_profile |-> [facility_type |-> facility_type.value,
                                    location_type |-> location_type.value],
              processed_products |->
                <<[quality_grade |-> quality_grade.value,
                   market_destination |-> market_destination.value]>>])

\* input documents: every enum-valued field with a known and an unknown string,
\* the optional ones also absent
OptionalStrings(known) == {None, Some(known), Some("Atlantis")}

ComprehensiveDocuments ==
  [country : {"Ghana", "Atlantis"},
   farm_type : {None, Some("Commercial"), Some("Atlantis")},
   primary_farming_system : {None, Some("Atlantis")},
   management_practices : [soil_type : OptionalStrings("Loam")],
   food : [category : {"Cereals", "Atlantis"},
           production_system : OptionalStrings("Organic"),
           cropping_pattern : OptionalStrings("Monoculture")]]

ProcessingDocuments ==
  [country : {"Nigeria", "Atlantis"},
   facility_type : OptionalStrings("Mill"),
   location_type : OptionalStrings("Urban"),
   quality_grade : OptionalStrings("Premium"),
   market_destination : OptionalStrings("Export")]

InitParse ==
  /\ InitEngine
  /\ InitProcessingEngine
  /\ InitRun
  /\ best = NoCall

\* handle_comprehensive_assessment: create_comprehensive_assessment(input)
CreateComprehensiveAssessment ==
  /\ \E input \in ComprehensiveDocuments :
       best' = [called |-> TRUE, function |-> "create_comprehensive_assessment",
                input |-> input, result |-> create_comprehensive_assessment(input)]
  /\ UNCHANGED <<engineVars, runVars>>

\* handle_processing_assessment: create_processing_assessment(input)
CreateProcessingAssessment ==
  /\ \E input \in ProcessingDocuments :
       best' = [called |-> TRUE, function |-> "create_processing_assessment",
                input |-> input, result |-> create_processing_assessment(input)]
  /\ UNCHANGED <<engineVars, runVars>>

NextParse ==
  \/ CreateComprehensiveAssessment
  \/ CreateProcessingAssessment

SpecParse == InitParse /\ [][NextParse]_vars

(* The farm inventory on its own: calculate_inventory and                   *)
(* calculate_extended_midpoint_impacts on farms of any shape                *)

RicePaddy == FoodItem(Str("Rice"), Fx(100), "Cereals", Some(Str("Rice")), Some("Intensive"), None, Some(Fx(2)))
UplandRice == FoodItem(<<W("Upland"), W("Rice")>>, Fx(50), "Cereals", None, None, None, Some(Fx(1)))
RiceNoArea == FoodItem(Str("Rice"), Fx(20), "Cereals", None, None, None, None)
MaizePlot == FoodItem(Str("Maize"), Fx(200), "Cereals", None, Some("Extensive"), None, Some(Fx(10)))

FarmFoods ==
  {<<RicePaddy>>, <<RiceNoArea, MaizePlot>>, <<UplandRice, RicePaddy>>, <<MaizePlot>>,
   <<RiceNoArea>>, <<Maize>>}

Fertilization(uses_fertilizers, fertilizer_applications) ==
  [uses_fertilizers |-> uses_fertilizers,
   fertilizer_applications |-> fertilizer_applications,
   soil_test_based |-> FALSE, follows_nutrient_plan |-> FALSE]

FarmFertilizations ==
  {Fertilization(FALSE, <<FertilizerApplication("Urea", None, Fx(100), 1)>>),
   Fertilization(TRUE, <<FertilizerApplication("Urea", None, Fx(100), 1)>>),
   Fertilization(TRUE,
     <<FertilizerApplication("NPK", Some(<<N(Fx(15)), N(Fx(15)), N(Fx(15))>>), Fx(200), 2),
       FertilizerApplication("Urea", None, Fx(50), 1)>>),
   Fertilization(TRUE, <<FertilizerApplication("DAP", None, Fx(100), 1)>>),
   Fertilization(TRUE, <<FertilizerApplication("Ammonium Sulfate", None, Fx(100), 1)>>)}

FarmPractices ==
  {None} \cup
  {Some([PlainPractices EXCEPT !.fertilization = f]) : f \in FarmFertilizations}

FuelConsumption(fuel_type, monthly_consumption) ==
  [fuel_type |-> fuel_type, monthly_consumption |-> monthly_consumption,
   primary_use |-> "Plowing"]

EnergySource(energy_type, monthly_consumption) ==
  [energy_type |-> energy_type, monthly_consumption |-> monthly_consumption,
   primary_use |-> "Irrigation"]

EquipmentEnergy(energy_sources, fuel_consumption) ==
  [equipment |-> <<>>, energy_sources |-> energy_sources,
   fuel_consumption |-> fuel_consumption]

FarmEquipment ==
  {None,
   Some(EquipmentEnergy(<<>>, <<>>)),
   Some(EquipmentEnergy(<<>>, <<FuelConsumption("Diesel", Fx(10))>>)),
   Some(EquipmentEnergy(<<>>, <<FuelConsumption("Diesel", Fx(10)),
                                FuelConsumption("Petrol", Fx(5))>>)),
   Some(EquipmentEnergy(<<>>, <<FuelConsumption("Petrol", Fx(5)),
                                FuelConsumption("Diesel", Fx(10)),
                                FuelConsumption("Diesel", Fx(20))>>)),
   Some(EquipmentEnergy(<<EnergySource(<<W("Grid"), W("Electricity")>>, Fx(100))>>, <<>>)),
   Some(EquipmentEnergy(<<EnergySource(<<W("Grid"), W("Electricity")>>, Fx(100))>>,
                        <<FuelConsumption("Diesel", Fx(10))>>))}

FarmAssessments ==
  {Assessment(country, None, foods, practices, equipment) :
     country \in {"Ghana", "Global"}, foods \in FarmFoods,
     practices \in FarmPractices, equipment \in FarmEquipment}

InitFarm ==
  /\ InitEngine
  /\ InitProcessingEngine
  /\ lci_inventory = <<>>
  /\ hash_seed \in HashSeeds
  /\ prior_inventory = <<>>
  /\ the_assessment \in FarmAssessments
  /\ pc = "ready"
  /\ entry = "comprehensive"
  /\ midpoint_impacts = <<>>
  /\ breakdown_by_food = <<>>
  /\ endpoint_impacts = <<>>
  /\ history = <<>>
  /\ best = NoCall

\* self.lci_engine.calculate_inventory(assessment)
FarmInventory ==
  /\ pc = "ready"
  /\ lci_inventory' = calculate_inventory(lci_inventory, the_assessment)
  /\ pc' = "inventory"
  /\ UNCHANGED <<engineVars, hash_seed, prior_inventory, the_assessment, entry,
                 midpoint_impacts, breakdown_by_food, endpoint_impacts, history, best>>

\* calculate_extended_midpoint_impacts(&inventory, assessment)
FarmCharacterize ==
  /\ pc = "inventory"
  /\ midpoint_impacts' =
       calculate_extended_midpoint_impacts(lci_inventory,
         iteration_order(lci_inventory, hash_seed), the_assessment)
  /\ pc' = "characterized"
  /\ UNCHANGED <<engineVars, lci_inventory, hash_seed, prior_inventory, the_assessment,
                 entry, breakdown_by_food, endpoint_impacts, history, best>>

NextFarm ==
  \/ FarmInventory
  \/ FarmCharacterize

SpecFarm == InitFarm /\ [][NextFarm]_vars

-----------------------------------------------------------------------------

(* PedigreeScore on its own: every score with its five axes in 1..5 *)

PedigreeAxes == 1..5

PedigreeFields ==
  {"reliability", "completeness", "temporal_correlation", "geographical_correlation",
   "technological_correlation"}

InitPedigree ==
  /\ InitEngine
  /\ InitProcessingEngine
  /\ InitRun
  /\ best = NoCall

\* one call on a fresh score
CallQualityScore ==
  /\ best = NoCall
  /\ \E r \in PedigreeAxes, c \in PedigreeAxes, t \in PedigreeAxes, g \in PedigreeAxes,
        x \in PedigreeAxes :
       best' = [called |-> TRUE, function |-> "calculate_overall_quality_score",
                pedigree |-> PedigreeScore(r, c, t, g, x),
                result |-> calculate_overall_quality_score(PedigreeScore(r, c, t, g, x))]
  /\ UNCHANGED <<engineVars, runVars>>

NextPedigree == CallQualityScore

SpecPedigree == InitPedigree /\ [][NextPedigree]_vars

-----------------------------------------------------------------------------

(* apply_management_practice_adjustments on its own: any combination of      *)
(* practices, on results that lie within their ranges                        *)

PracticeCategories ==
  {"Global warming", "Water consumption", "Water scarcity", "Land use",
   "Soil degradation", "Biodiversity loss", "Terrestrial acidification",
   "Freshwater eutrophication", "Marine eutrophication"}

\* <<lower, upper>> of a range as fractions of the value
PracticeSpreads == {<<8000, 12000>>, <<9500, 10500>>}

PracticeValues == {Fx(10), Fx(3)}

PracticeImpacts(value, spread) ==
  [c \in PracticeCategories |->
     MidpointResult(value, Str("unit"), <<FMul(value, spread[1]), FMul(value, spread[2])>>,
                    7000, <<>>)]

\* n names of practices or pesticides
Names(n) == [i \in 1..n |-> Str("Practice")]

Pesticide(i) ==
  [pesticide_type |-> "Herbicide", active_ingredient |-> "Glyphosate",
   application_rate |-> Fx(1), applications_per_season |-> 1]

PracticeCombinations ==
  {ManagementPractices(
     [uses_compost |-> compost, conservation_practices |-> Names(conservation)],
     [uses_fertilizers |-> FALSE, fertilizer_applications |-> <<>>,
      soil_test_based |-> soil_test, follows_nutrient_plan |-> plan],
     [irrigation_system |-> irrigation, water_conservation_practices |-> Names(water)],
     [uses_ipm |-> ipm, pesticides_used |-> [i \in 1..pesticides |-> Pesticide(i)]]) :
     compost \in BOOLEAN, conservation \in {0, 1, 3}, soil_test \in BOOLEAN,
     plan \in BOOLEAN,
     irrigation \in {None, Some("Drip irrigation"), Some("Sprinkler"),
                     Some("Flood irrigation"), Some("Centre pivot")},
     water \in {0, 1}, ipm \in BOOLEAN, pesticides \in {0, 2, 4, 6}}

InitPractices ==
  /\ InitEngine
  /\ InitProcessingEngine
  /\ InitRun
  /\ best = NoCall

\* one call on fresh results
CallPracticeAdjustments ==
  /\ best = NoCall
  /\ \E value \in PracticeValues, spread \in PracticeSpreads,
        management_practices \in PracticeCombinations :
       best' = [called |-> TRUE, function |-> "apply_management_practice_adjustments",
                impacts |-> PracticeImpacts(value, spread),
                management_practices |-> management_practices,
                result |-> apply_management_practice_adjustments(
                             PracticeImpacts(value, spread), management_practices)]
  /\ UNCHANGED <<engineVars, runVars>>

NextPractices == CallPracticeAdjustments

SpecPractices == InitPractices /\ [][NextPractices]_vars

-----------------------------------------------------------------------------

(* apply_facility_adjustments on its own: facilities of any year of           *)
(* establishment.  `2024 - year` is a subtraction on u32: for a year after    *)
(* 2024 a build with overflow checks (the dev profile) panics, a build        *)
(* without them (the release profile) wraps to an age of 2^32 - (year - 2024). *)

FirstEstablishedYear == 1985
LastEstablishedYear == 2027

EstablishedYears == FirstEstablishedYear..LastEstablishedYear

\* u32::checked_sub(2024, year) is None
age_subtraction_overflows(established_year) ==
  IsSome(established_year) /\ Unwrap(established_year) > 2024

SampleFacility(established_year, location_type) ==
  ProcessingFacilityProfile(Str("Sample Mill"), "Mill", Fx(50), 250, established_year,
                            location_type)

AdjustedCategories == {"Global warming", "Water consumption", "Solid waste generation"}

InitFacility ==
  /\ InitEngine
  /\ InitProcessingEngine
  /\ InitRun
  /\ best = NoCall

\* one call; overflow_checks is the profile the engine was built with
CallFacilityAdjustments ==
  /\ best = NoCall
  /\ \E established_year \in {None} \cup {Some(y) : y \in EstablishedYears},
        location_type \in {"Industrial", "Urban", "PeriUrban", "Rural"},
        category \in AdjustedCategories, overflow_checks \in BOOLEAN :
       LET facility == SampleFacility(established_year, location_type)
       IN best' =
            IF overflow_checks /\ age_subtraction_overflows(established_year)
            THEN [called |-> TRUE, function |-> "apply_facility_adjustments",
                  facility |-> facility, category |-> category,
                  panicked |-> TRUE, result |-> 0]
            ELSE [called |-> TRUE, function |-> "apply_facility_adjustments",
                  facility |-> facility, category |-> category,
                  panicked |-> FALSE,
                  result |-> apply_facility_adjustments(Fx(100), facility,
                               MillOperations, category)]
  /\ UNCHANGED <<engineVars, runVars>>

NextFacility == CallFacilityAdjustments

SpecFacility == InitFacility /\ [][NextFacility]_vars

-----------------------------------------------------------------------------

(* Properties of the pipelines *)

\* the midpoints the inventory of the running assessment characterizes to
inventory_midpoints ==
  calculate_extended_midpoint_impacts(lci_inventory,
    iteration_order(lci_inventory, hash_seed), the_assessment)

\* the sum over the food items of the factor-based value of one category
RECURSIVE FoodSum(_, _, _)
FoodSum(foods, country, category) ==
  IF foods = <<>> THEN 0
  ELSE LET food_results == calculate_enhanced_food_impacts(Head(foods), country)
       IN (IF category \in DOMAIN food_results THEN food_results[category].value ELSE 0)
          + FoodSum(Tail(foods), country, category)

\* the results an engine with the same maps and an empty inventory produces
fresh_engine_results(a, path, seed) ==
  LET inventory == calculate_inventory(<<>>, a)
      characterized == calculate_extended_midpoint_impacts(inventory,
                         iteration_order(inventory, seed), a)
      merged == hybrid_merge(characterized, <<>>, a.foods, a.country)
      midpoint == apply_regional_adjustments(
                    IF path = "hybrid" THEN merged[1] ELSE characterized,
                    a.country, a.region)
      breakdown == IF path = "hybrid" THEN merged[2]
                   ELSE comprehensive_breakdown(<<>>, a.foods, a.country,
                          a.management_practices)
      endpoint == calculate_enhanced_endpoint_impacts(midpoint)
  IN LCAResults(midpoint, endpoint, calculate_enhanced_single_score(endpoint),
                assess_data_quality(a.foods, a.country), breakdown)

\* C3: after the hybrid merge, every category whose inventory-derived value is
\* zero holds the sum of the factor-based contributions of all food items.
C3_HybridMergeSumsAllItems ==
  (pc = "merged") =>
    \A c \in DOMAIN midpoint_impacts :
      inventory_midpoints[c].value = 0 =>
        midpoint_impacts[c].value =
          FoodSum(the_assessment.foods, the_assessment.country, c)

\* C4: after the hybrid merge, a category whose inventory-derived value is not
\* zero is exactly the inventory's result: value, range, quality and sources.
C4_InventoryValueKept ==
  (pc = "merged") =>
    \A c \in DOMAIN midpoint_impacts :
      inventory_midpoints[c].value # 0 => midpoint_impacts[c] = inventory_midpoints[c]

\* a hybrid merge in which an item had a factor-based value for a category that
\* the inventory already covers
C4_Witness ==
  /\ pc = "merged"
  /\ \E c \in DOMAIN midpoint_impacts :
       /\ inventory_midpoints[c].value # 0
       /\ FoodSum(the_assessment.foods, the_assessment.country, c) # 0

\* C5: with management practices, the midpoints the endpoints are computed from
\* carry the management-practice multipliers on top of the regional adjustment.
C5_AggregateCarriesAdjustments ==
  (pc = "endpoints" /\ IsSome(the_assessment.management_practices)) =>
    \A c \in DOMAIN midpoint_impacts :
      midpoint_impacts[c].value =
        apply_management_practice_adjustments(
          apply_regional_adjustments(inventory_midpoints, the_assessment.country,
                                     the_assessment.region),
          Unwrap(the_assessment.management_practices))[c].value

\* C6: the value of the single score, production or processing, lies in [0, 1]
\* whatever the endpoint values are.
C6_ScoreWithinUnitInterval ==
  best.called => (best.result.value >= 0 /\ best.result.value <= MILLION)

\* a production score whose raw value is far above 2, clamped to 1
C6_Witness ==
  /\ best.called
  /\ best.function = "calculate_enhanced_single_score"
  /\ endpoint_impacts["Human Health"].value = 520000000
  /\ best.result.value = MILLION

\* C7: a run on the input of the previous run, through the same function and
\* with the same loaded factors, stores the results the previous run stored.
C7_RepeatedRunSameResults ==
  [][(/\ pc = "endpoints" /\ pc' = "idle"
      /\ history # <<>>
      /\ history[1].input = the_assessment
      /\ history[1].entry = entry)
     => history'[1].results = history[1].results]_vars

\* C8: every run computes its inventory from an empty one, and its results are
\* those of an engine that never ran before.
C8_RunStartsFromEmptyInventory ==
  /\ (pc = "inventory") => lci_inventory = calculate_inventory(<<>>, the_assessment)
  /\ (pc = "idle" /\ history # <<>>) =>
       history[1].results =
         fresh_engine_results(history[1].input, history[1].entry, history[1].seed)

\* a run that began on an engine whose inventory held an entry of an earlier run
\* which this run does not produce
C8_Witness ==
  /\ pc = "inventory"
  /\ \E k \in DOMAIN prior_inventory : k \notin DOMAIN lci_inventory

\* C9: while perform_assessment, perform_comprehensive_assessment or
\* perform_processing_assessment runs, the engines' maps and every field of the
\* assessment other than results stay as they are.
C9_OnlyResultsChange ==
  [][(pc # "idle") =>
       /\ engineVars' = engineVars
       /\ DOMAIN the_assessment' = DOMAIN the_assessment
       /\ \A k \in DOMAIN the_assessment \ {"results"} :
            the_assessment'[k] = the_assessment[k]]_vars

\* a processing assessment completed after a production run, both engines loaded
C9_Witness ==
  /\ pc = "idle"
  /\ history # <<>>
  /\ impact_factors # <<>> /\ processing_engine.impact_factors # <<>>
  /\ "processed_products" \in DOMAIN the_assessment
  /\ IsSome(the_assessment.results)

\* C10: from characterization on, each step of a run keeps every source string
\* a midpoint category already lists.
C10_SourcesOnlyGrow ==
  [][(/\ pc \in {"characterized", "merged", "regional", "adjusted",
                 "p_aggregated", "p_adjusted"}
      /\ pc' # "idle")
     => \A c \in DOMAIN midpoint_impacts \cap DOMAIN midpoint_impacts' :
          Range(midpoint_impacts[c].contributing_sources)
            \subseteq Range(midpoint_impacts'[c].contributing_sources)]_vars

-----------------------------------------------------------------------------
(* Properties of single calls *)

\* the AWARE factor by country and region, a loaded regional factor first
regional_aware_factor(country, region) ==
  LET key == CASE country = "Ghana" -> "Ghana_water_scarcity"
               [] country = "Nigeria" /\ region = Some(Str("Northern")) ->
                    "Nigeria_north_water_scarcity"
               [] country = "Nigeria" /\ region # Some(Str("Northern")) ->
                    "Nigeria_south_water_scarcity"
               [] OTHER -> "none"
      default == CASE country = "Ghana" -> Fx(20)
                   [] country = "Nigeria" /\ region = Some(Str("Northern")) -> Fx(30)
                   [] country = "Nigeria" /\ region # Some(Str("Northern")) -> Fx(15)
                   [] OTHER -> Fx(1)
  IN IF key \in DOMAIN regional_factors THEN regional_factors[key] ELSE default

\* C11: apply_regional_adjustments keeps "Water consumption" and every category
\* other than "Water scarcity" as they are, sets the value and range of "Water
\* scarcity" to those of "Water consumption" times the AWARE factor of the
\* country and region, and changes nothing when there is no "Water consumption".
C11_OnlyWaterScarcityChanges ==
  (best.called /\ best.function = "apply_regional_adjustments") =>
    LET before == best.impacts
        after == best.result
        factor == regional_aware_factor(best.country, best.region)
    IN IF "Water consumption" \in DOMAIN before
       THEN /\ DOMAIN after = DOMAIN before \cup {"Water scarcity"}
            /\ \A c \in DOMAIN before \ {"Water scarcity"} : after[c] = before[c]
            /\ after["Water scarcity"].value =
                 FMul(before["Water consumption"].value, factor)
            /\ after["Water scarcity"].uncertainty_range =
                 <<FMul(before["Water consumption"].uncertainty_range[1], factor),
                   FMul(before["Water consumption"].uncertainty_range[2], factor)>>
       ELSE after = before

\* a call for northern Nigeria on a map that holds a water consumption, an
\* earlier water scarcity and a third category, with the built-in factor 30
C11_Witness ==
  /\ best.called /\ best.function = "apply_regional_adjustments"
  /\ regional_factors = <<>>
  /\ best.country = "Nigeria" /\ best.region = Some(Str("Northern"))
  /\ DOMAIN best.impacts = {"Water consumption", "Water scarcity", "Land use"}
  /\ best.impacts["Water consumption"].value = Fx(3)
  /\ best.result["Water scarcity"].value = Fx(90)

-----------------------------------------------------------------------------
(* Properties of the pipelines: units of the midpoints *)

\* the categories whose inventory result calculate_midpoint_impacts gives as an
\* absolute total and calculate_extended_midpoint_impacts only scales
absolute_inventory_total(c) ==
  calculate_midpoint_impacts(lci_inventory, iteration_order(lci_inventory, hash_seed))[c].value

\* C12: with a total production above zero, each midpoint category other than
\* "Land use" is its absolute total divided once by the total kg produced and
\* "Land use" is the absolute total, for the categories the inventory fills and
\* for those the factor-based fallback fills.  ("Water scarcity" is derived from
\* "Water consumption" and follows it.)
C12_MidpointsPerKgOfProduction ==
  (pc = "endpoints" /\ total_production_kg(the_assessment.foods) > 0) =>
    LET kg == total_production_kg(the_assessment.foods)
    IN \A c \in {"Global warming", "Water consumption", "Land use",
                 "Freshwater eutrophication"} :
         LET total == IF inventory_midpoints[c].value # 0 \/ entry # "hybrid"
                      THEN absolute_inventory_total(c)
                      ELSE FoodSum(the_assessment.foods, the_assessment.country, c)
         IN midpoint_impacts[c].value =
              IF c = "Land use" THEN total ELSE FDiv(total, kg)

\* hi - lo of a result's uncertainty range
RangeWidth(result) == result.uncertainty_range[2] - result.uncertainty_range[1]

\* twice the combined standard deviation of two results
TwoStd(total, addition) == Hypot(RangeWidth(total), RangeWidth(addition)) \div 2

\* C13 as stated: the combined value is v1 + v2 and the combined range is at
\* least as wide as the narrower of the two input ranges, also when the combined
\* lower bound is clamped at zero.
C13_CombinedRangeAtLeastNarrower ==
  (best.called /\ best.function = "aggregate_midpoint_results") =>
    /\ best.result.value = best.total.value + best.addition.value
    /\ RangeWidth(best.result) >= Min(RangeWidth(best.total), RangeWidth(best.addition))

\* C13, amended: the combined value is v1 + v2, the upper bound is the value
\* plus twice the combined standard deviation, and the combined range is at least
\* as wide as the narrower input range whenever the value is not below twice the
\* combined standard deviation, that is, whenever the lower bound is not clamped.
C13_CombinedRangeUnlessClamped ==
  (best.called /\ best.function = "aggregate_midpoint_results") =>
    LET value == best.total.value + best.addition.value
        two_std == TwoStd(best.total, best.addition)
    IN /\ best.result.value = value
       /\ best.result.uncertainty_range[2] = value + two_std
       /\ best.result.uncertainty_range[1] = Max(value - two_std, 0)
       /\ value >= two_std =>
            RangeWidth(best.result)
              >= Min(RangeWidth(best.total), RangeWidth(best.addition))

\* two results with ranges of different positive widths, combined by the
\* processing engine without clamping
C13_Witness ==
  /\ best.called /\ best.function = "aggregate_midpoint_results"
  /\ best.engine = "processing"
  /\ RangeWidth(best.total) = Fx(2) /\ RangeWidth(best.addition) = Fx(8)
  /\ best.result.uncertainty_range[1] > 0
  /\ RangeWidth(best.result) > Fx(8)

-----------------------------------------------------------------------------
(* Properties of the inventory *)

\* the contributions of one (substance, compartment) pair, in call order
RECURSIVE ContributionsOf(_, _, _)
ContributionsOf(items, substance, compartment) ==
  IF items = <<>> THEN <<>>
  ELSE (IF Head(items).substance = substance /\ Head(items).compartment = compartment
        THEN <<Head(items)>> ELSE <<>>)
       \o ContributionsOf(Tail(items), substance, compartment)

RECURSIVE SumQuantities(_)
SumQuantities(items) ==
  IF items = <<>> THEN 0 ELSE Head(items).quantity + SumQuantities(Tail(items))

\* the source texts joined with ", "
RECURSIVE JoinSources(_)
JoinSources(items) ==
  IF Len(items) = 1 THEN Head(items).source
  ELSE Head(items).source \o Str(", ") \o JoinSources(Tail(items))

AddedPairs == {<<added_items[i].substance, added_items[i].compartment>> :
                 i \in 1..Len(added_items)}

\* C14: after any sequence of add_inventory_item calls of a run the inventory
\* holds one entry per (substance, compartment) pair added, with the sum of the
\* pair's quantities and the pair's source texts joined in call order, duplicates
\* kept; an add leaves the entries of the other pairs as they were.
C14_OneEntryPerPair ==
  /\ Cardinality(DOMAIN lci_inventory) = Cardinality(AddedPairs)
  /\ \A p \in AddedPairs :
       LET key == inventory_key(p[1], p[2])
           contributions == ContributionsOf(added_items, p[1], p[2])
       IN /\ key \in DOMAIN lci_inventory
          /\ lci_inventory[key].substance = p[1]
          /\ lci_inventory[key].compartment = p[2]
          /\ lci_inventory[key].quantity = SumQuantities(contributions)
          /\ lci_inventory[key].source = JoinSources(contributions)
  /\ best.called =>
       LET last == added_items[Len(added_items)]
       IN \A k \in DOMAIN best.before :
            k # inventory_key(last.substance, last.compartment) =>
              lci_inventory[k] = best.before[k]

\* three adds: the same contribution twice for one pair, and another pair between
C14_Witness ==
  /\ Len(added_items) = 3
  /\ added_items[1] = added_items[3]
  /\ added_items[2].substance # added_items[1].substance
  /\ Cardinality(DOMAIN lci_inventory) = 2
  /\ lci_inventory[inventory_key(added_items[1].substance, added_items[1].compartment)].quantity
       = 2 * added_items[1].quantity

-----------------------------------------------------------------------------
(* Properties of the factor repositories *)

\* the (food category, country, optional crop, impact category) of a factor
FactorDimensions(f) == <<f.food_category, f.country, f.crop_type, f.impact_category>>

\* the (facility type, product type, country, impact category) of a factor
ProcessingDimensions(f) ==
  <<f.facility_type, f.product_type, f.country, f.impact_category>>

\* the last element of a sequence that satisfies Same with x
LastIndexWith(loaded, Same(_, _), x) ==
  CHOOSE i \in 1..Len(loaded) :
    /\ Same(loaded[i], x)
    /\ \A j \in (i + 1)..Len(loaded) : ~Same(loaded[j], x)

SameDimensions(f, g) == FactorDimensions(f) = FactorDimensions(g)
SameKey(f, g) == create_factor_key(f) = create_factor_key(g)
SameProcessingDimensions(f, g) == ProcessingDimensions(f) = ProcessingDimensions(g)

\* the processing repository: a lookup by the dimensions of a loaded factor gives
\* the factor loaded last with them, one entry per distinct dimensions
ProcessingRepositoryLastWins ==
  LET loaded == best.processing_loaded
      stored == processing_engine.impact_factors
  IN /\ \A i \in 1..Len(loaded) :
          LET f == loaded[i]
              key == processing_factor_key(f.facility_type, f.product_type, f.country,
                                           f.impact_category)
          IN /\ key \in DOMAIN stored
             /\ stored[key] = loaded[LastIndexWith(loaded, SameProcessingDimensions, f)]
     /\ Cardinality(DOMAIN stored)
          = Cardinality({ProcessingDimensions(loaded[i]) : i \in 1..Len(loaded)})

\* C15 as stated: after any sequence of loads the lookup by the key of a loaded
\* factor gives the factor loaded last with the same food category, country, crop
\* and impact category, and the repository holds one factor per distinct such
\* combination loaded.
C15_LastLoadedPerDimensions ==
  LET loaded == best.loaded
  IN /\ \A i \in 1..Len(loaded) :
          /\ create_factor_key(loaded[i]) \in DOMAIN impact_factors
          /\ impact_factors[create_factor_key(loaded[i])]
               = loaded[LastIndexWith(loaded, SameDimensions, loaded[i])]
     /\ Cardinality(DOMAIN impact_factors)
          = Cardinality({FactorDimensions(loaded[i]) : i \in 1..Len(loaded)})
     /\ ProcessingRepositoryLastWins

\* C15, amended: the lookup by the key of a loaded factor gives the factor loaded
\* last whose key text, the concatenation create_factor_key builds, is the same,
\* and the repository holds one factor per distinct key text loaded; in the
\* processing engine the key text determines the dimensions.
C15_LastLoadedPerKeyText ==
  LET loaded == best.loaded
  IN /\ \A i \in 1..Len(loaded) :
          /\ create_factor_key(loaded[i]) \in DOMAIN impact_factors
          /\ impact_factors[create_factor_key(loaded[i])]
               = loaded[LastIndexWith(loaded, SameKey, loaded[i])]
     /\ Cardinality(DOMAIN impact_factors)
          = Cardinality({create_factor_key(loaded[i]) : i \in 1..Len(loaded)})
     /\ ProcessingRepositoryLastWins

\* three loads: a factor, a second factor under another key, and the first key
\* again with other data; both repositories hold factors
C15_Witness ==
  /\ Len(best.loaded) = 2 /\ Len(best.processing_loaded) = 1
  /\ create_factor_key(best.loaded[1]) = create_factor_key(best.loaded[2])
  /\ best.loaded[1] # best.loaded[2]
  /\ impact_factors[create_factor_key(best.loaded[1])] = best.loaded[2]

-----------------------------------------------------------------------------
(* Properties of the pipelines: data quality *)

\* the (food, category) pairs of a food list that no loaded factor resolves
default_pairs(foods, country) ==
  {k \in 1..Len(quality_pairs(foods)) :
     find_in_hierarchy(impact_factors, quality_pairs(foods)[k].category,
       build_lookup_hierarchy(quality_pairs(foods)[k].food, country)) = None}

\* C16: a completed production run has results; for every (item, category) pair
\* that only the default estimate resolves, data_quality.warnings holds a warning
\* that names the item and the category, and the overall quality is the average
\* of the scores of the other pairs.
C16_DefaultPairsWarned ==
  (pc = "idle" /\ history # <<>>) =>
    LET foods == history[1].input.foods
        country == history[1].input.country
        pairs == quality_pairs(foods)
        defaults == default_pairs(foods, country)
        others == (1..Len(pairs)) \ defaults
        scores == [k \in others |->
                     calculate_overall_quality_score(pair_factor(pairs[k], country)[4])]
        data_quality == history[1].results.data_quality
    IN /\ \A k \in defaults :
            \E i \in 1..Len(data_quality.warnings) :
              /\ Contains(data_quality.warnings[i], pairs[k].food.name)
              /\ Contains(data_quality.warnings[i], Text(pairs[k].category))
       /\ data_quality.completeness_score =
            IF others = {} THEN 0 ELSE SumOver(scores, others) \div Cardinality(others)

-----------------------------------------------------------------------------
(* Properties of the input parsing *)

\* the enum-valued fields of a document: <<kind, string or absent>>
EnumFields(function, input) ==
  IF function = "create_comprehensive_assessment"
  THEN {<<"country", Some(input.country)>>,
        <<"farm_type", input.farm_type>>,
        <<"farming_system", input.primary_farming_system>>,
        <<"soil_type", input.management_practices.soil_type>>,
        <<"food_category", Some(input.food.category)>>,
        <<"production_system", input.food.production_system>>,
        <<"cropping_pattern", input.food.cropping_pattern>>}
  ELSE {<<"country", Some(input.country)>>,
        <<"facility_type", input.facility_type>>,
        <<"location_type", input.location_type>>,
        <<"quality_grade", input.quality_grade>>,
        <<"market_destination", input.market_destination>>}

HasUnknownVariant(function, input) ==
  \E field \in EnumFields(function, input) :
    IsSome(field[2]) /\ Unwrap(field[2]) \notin KnownVariants[field[1]]

\* C17: building an assessment from a document in which an enum-valued field
\* holds a string that is no known variant fails with an "Unknown <kind>" error
\* that names the string, and yields no assessment.
C17_UnknownVariantRejected ==
  (best.called /\ best.function \in {"create_comprehensive_assessment",
                                     "create_processing_assessment"}
     /\ HasUnknownVariant(best.function, best.input)) =>
    /\ ~best.result.ok
    /\ best.result.error[2] = W("Atlantis")

-----------------------------------------------------------------------------
(* Properties of the pipelines: uncertainty ranges *)

\* 0 <= lower bound <= upper bound
RangeOrderedFromZero(result) ==
  /\ result.uncertainty_range[1] >= 0
  /\ result.uncertainty_range[1] <= result.uncertainty_range[2]

\* C18: in the results of a completed production or processing assessment every
\* midpoint result, of the aggregate and of the per-item or per-product
\* breakdown, has a lower uncertainty bound that is not negative and not above
\* the upper bound.
C18_LowerBoundsNonNegative ==
  (pc = "idle" /\ IsSome(the_assessment.results)) =>
    LET results == Unwrap(the_assessment.results)
    IN /\ \A c \in DOMAIN results.midpoint_impacts :
            RangeOrderedFromZero(results.midpoint_impacts[c])
       /\ \A k \in DOMAIN results.breakdown_by_food :
            \A c \in DOMAIN results.breakdown_by_food[k] :
              RangeOrderedFromZero(results.breakdown_by_food[k][c])


-----------------------------------------------------------------------------
(* Properties of the single score composition *)

\* sum over the weighted categories of (value / normalization reference) x weight,
\* as a fixed-point number; the reference is the embedded normalization_factor
\* when present and the per-category constant otherwise
NormalizedWeightedSum(endpoint, weights) ==
  LET cats == DOMAIN endpoint \cap DOMAIN weights
      term == [c \in cats |->
                 MulDiv(MulDiv(endpoint[c].value, SCALE, norm_factor(c, endpoint[c])),
                        weights[c], 1000)]
  IN SumOver(term, cats)

\* C19: in both composers the raw single score is the sum over the weighted
\* endpoint categories of (endpoint value / normalization reference) x weight,
\* and the weights of the scheme in use sum to 1.  The raw score is read from
\* what each composer reports: the production composer prints it in its
\* methodology text and halves and clamps it into the value, the processing
\* composer maps it through the logistic function centred at 50.
C19_RawScoreIsNormalizedWeightedSum ==
  best.called =>
    LET weights == best.result.weighting_factors
    IN /\ SumOver(weights, DOMAIN weights) = 1000
       /\ best.function = "calculate_enhanced_single_score" =>
            best.result.value =
              display_score(SumOver(
                [c \in DOMAIN weights |->
                   Weighted(endpoint_impacts[c].value,
                            norm_factor(c, endpoint_impacts[c]), weights[c])],
                DOMAIN weights))
       /\ best.function = "calculate_processing_single_score" =>
            best.result.value =
              Logistic(MulDiv(NormalizedWeightedSum(endpoint_impacts, weights) - Fx(50),
                              1, 10))


-----------------------------------------------------------------------------
(* Properties of the layered adjustments *)

\* the two discounts the processing engine derives from the number of
\* water_conservation_measures: the steps of calculate_water_impact and the
\* 5% per measure of apply_facility_adjustments
conservation_discounts(measures) ==
  {CASE measures = 0 -> 10000 [] measures \in 1..2 -> 9000
     [] measures \in 3..4 -> 8000 [] OTHER -> 7000,
   Max(SCALE - measures * 500, 7000)}

\* the operations with no water conservation measure
without_conservation(operations) ==
  [operations EXCEPT !.water_management.water_conservation_measures = <<>>]

\* equal up to the rounding of a chain of fixed-point products
Near(a, b) == Abs(a - b) <= 10

\* the reported "Water consumption" of each product is the value the same
\* facility gives without any measure, scaled once by a discount of its measures
WaterConservationOnce(a, results) ==
  \A i \in 1..Len(a.processed_products) :
    LET product == a.processed_products[i]
        undiscounted ==
          calculate_product_impacts(processing_engine.impact_factors, product,
            a.facility_profile, without_conservation(a.processing_operations),
            a.country)["Water consumption"].value
        reported ==
          results.breakdown_by_food[product_breakdown_key(product)]["Water consumption"].value
        measures == Len(a.processing_operations.water_management.water_conservation_measures)
    IN \E discount \in conservation_discounts(measures) :
         Near(reported, FMul(undiscounted, discount))

\* the final "Water scarcity" is the final "Water consumption" times the AWARE
\* factor of the country and region, once
AwareFactorOnce(a, results) ==
  "Water consumption" \in DOMAIN results.midpoint_impacts =>
    Near(results.midpoint_impacts["Water scarcity"].value,
         FMul(results.midpoint_impacts["Water consumption"].value,
              regional_aware_factor(a.country, a.region)))

\* C20: each multiplicative adjustment is applied at most once to a category
\* value: the discount of the water conservation measures scales a product's
\* "Water consumption" exactly once in the processing engine, and the AWARE
\* factor is applied exactly once for the final "Water scarcity" in the
\* production engine.
C20_AdjustmentsAppliedOnce ==
  (pc = "idle" /\ IsSome(the_assessment.results)) =>
    IF "processed_products" \in DOMAIN the_assessment
    THEN WaterConservationOnce(the_assessment, Unwrap(the_assessment.results))
    ELSE AwareFactorOnce(the_assessment, Unwrap(the_assessment.results))


-----------------------------------------------------------------------------
(* Properties of the farm inventory *)

\* the quantity of an inventory entry, 0 when the inventory has none
QuantityOf(inv, substance, compartment) ==
  LET key == inventory_key(substance, compartment)
  IN IF key \in DOMAIN inv THEN inv[key].quantity ELSE 0

\* the source text of an inventory entry, empty when the inventory has none
SourceOf(inv, substance, compartment) ==
  LET key == inventory_key(substance, compartment)
  IN IF key \in DOMAIN inv THEN inv[key].source ELSE <<>>

\* the CO2 the fertilizer step alone gives the assessment
fertilizer_co2(assessment) ==
  IF IsSome(assessment.management_practices)
  THEN QuantityOf(calculate_fertilizer_emissions(<<>>,
                    Unwrap(assessment.management_practices).fertilization,
                    assessment.foods),
                  SubstanceCO2, "Air")
  ELSE 0

\* the assessment carries a metered fuel or electricity entry
HasMeteredEnergy(assessment) ==
  /\ IsSome(assessment.equipment_energy)
  /\ \/ Unwrap(assessment.equipment_energy).fuel_consumption # <<>>
     \/ Unwrap(assessment.equipment_energy).energy_sources # <<>>

\* annual CO2 of the metered entries: litres x 12 x 2.68 or 2.31, kWh x 12 x grid
RECURSIVE metered_fuel_co2(_)
metered_fuel_co2(fuels) ==
  IF fuels = <<>> THEN 0
  ELSE FMul(Head(fuels).monthly_consumption * 12,
            IF Head(fuels).fuel_type = "Diesel" THEN 26800 ELSE 23100)
       + metered_fuel_co2(Tail(fuels))

RECURSIVE metered_electricity_co2(_, _)
metered_electricity_co2(sources, country) ==
  IF sources = <<>> THEN 0
  ELSE FMul(Head(sources).monthly_consumption * 12, electricity_ef(country))
       + metered_electricity_co2(Tail(sources), country)

\* the area-based estimate: 80 L diesel and 200 kWh per hectare and year
estimated_energy_co2(assessment) ==
  LET area == total_area_ha(assessment.foods)
  IN FMul(area * 80, 26800) + FMul(area * 200, electricity_ef(assessment.country))

\* C21: calculate_energy_emissions takes exactly one of two paths.  With a
\* metered fuel or electricity entry the energy CO2 is that of the entries alone
\* and nothing in the inventory is flagged ESTIMATED; with no metered entry
\* (equipment data absent, or present with empty lists) and a total area above
\* zero the inventory receives the area-based estimate, flagged ESTIMATED.
C21_MeteredOrEstimated ==
  pc = "inventory" =>
    LET energy_co2 == QuantityOf(lci_inventory, SubstanceCO2, "Air")
                        - fertilizer_co2(the_assessment)
        flagged == Contains(SourceOf(lci_inventory, SubstanceCO2, "Air"),
                            Str("ESTIMATED:"))
    IN IF HasMeteredEnergy(the_assessment)
       THEN LET e == Unwrap(the_assessment.equipment_energy)
            IN /\ energy_co2 = metered_fuel_co2(e.fuel_consumption)
                     + metered_electricity_co2(e.energy_sources, the_assessment.country)
               /\ ~flagged
       ELSE total_area_ha(the_assessment.foods) > 0 =>
              /\ energy_co2 = estimated_energy_co2(the_assessment)
              /\ flagged


\* rate x fraction_N x area x applications of one application, in kg N
n_applied(app, area) ==
  FMul(FMul(app.application_rate,
            get_nitrogen_content(app.fertilizer_type, app.npk_ratio)), area)
    * app.applications_per_season

RECURSIVE total_n_applied(_, _)
total_n_applied(apps, area) ==
  IF apps = <<>> THEN 0
  ELSE n_applied(Head(apps), area) + total_n_applied(Tail(apps), area)

\* the inventory adds fertilizer emissions for the assessment
FertilizerEmissionsAdded(assessment) ==
  /\ IsSome(assessment.management_practices)
  /\ Unwrap(assessment.management_practices).fertilization.uses_fertilizers
  /\ total_area_ha(assessment.foods) > 0

\* the nitrogen applied over all applications, 0 when no emissions are added
inventory_n_applied(assessment) ==
  IF FertilizerEmissionsAdded(assessment)
  THEN total_n_applied(
         Unwrap(assessment.management_practices).fertilization.fertilizer_applications,
         total_area_ha(assessment.foods))
  ELSE 0

\* C22: the indirect path conserves the lost nitrogen.  20% of the applied N
\* is lost; the indirect N2O entry holds 1% of it as N2O (x 44/28), the nitrate
\* entry holds the remaining 99% as nitrate (x 62/14), so that the N2O-N of
\* the one and the nitrogen of the other add up to 0.20 x N_applied.
C22_LostNitrogenConserved ==
  (pc = "inventory" /\ FertilizerEmissionsAdded(the_assessment)) =>
    LET lost == FMul(inventory_n_applied(the_assessment), 2000)
        n2o_indirect == QuantityOf(lci_inventory, SubstanceN2OIndirect, "Air")
        nitrate == QuantityOf(lci_inventory, SubstanceNitrate, "Water")
    IN /\ Near(n2o_indirect, MulDiv(FMul(lost, 100), 44, 28))
       /\ Near(nitrate, MulDiv(FMul(lost, 9900), 62, 14))
       /\ Near(MulDiv(n2o_indirect, 28, 44) + MulDiv(nitrate, 14, 62), lost)


\* the indices of the foods named rice that have an allocated area
RiceFields(foods) ==
  {i \in 1..Len(foods) :
     /\ \E j \in 1..Len(foods[i].name) : foods[i].name[j].w \in {"rice", "Rice", "RICE"}
     /\ IsSome(foods[i].area_allocated)}

\* C25: after calculate_inventory the "Methane (CH4)" air entry is 200 kg times
\* the sum of the allocated areas of exactly the items whose name contains
\* "rice", in any case, and that have an allocated area; there is no CH4 entry
\* when there is no such item.
C25_MethaneFromRiceAreas ==
  pc = "inventory" =>
    LET foods == the_assessment.foods
        areas == [i \in RiceFields(foods) |-> Unwrap(foods[i].area_allocated)]
    IN IF RiceFields(foods) = {}
       THEN inventory_key(SubstanceCH4, "Air") \notin DOMAIN lci_inventory
       ELSE /\ inventory_key(SubstanceCH4, "Air") \in DOMAIN lci_inventory
            /\ QuantityOf(lci_inventory, SubstanceCH4, "Air")
                 = 200 * SumOver(areas, RiceFields(foods))

\* a farm whose only food is rice on 2.0 ha: exactly 400 kg
C25_Witness ==
  /\ pc = "inventory"
  /\ the_assessment.foods = <<RicePaddy>>
  /\ QuantityOf(lci_inventory, SubstanceCH4, "Air") = Fx(400)

\* no entry of the inventory stems from a fertilizer
NoFertilizerFlow(inv) ==
  /\ \A s \in {SubstanceN2O, SubstanceN2OIndirect, SubstanceNitrate} :
       \A c \in {"Air", "Water"} : inventory_key(s, c) \notin DOMAIN inv
  /\ \A k \in DOMAIN inv :
       /\ ~Contains(inv[k].source, Str("Production and transport of"))
       /\ ~Contains(inv[k].substance, Str("Phosphate"))
       /\ ~Contains(inv[k].substance, Str("Potash"))

\* C24: when fertilizers are used and the total allocated area is above zero,
\* the direct N2O (air) entry is the sum over the applications of
\* rate x fraction_N x total_area x applications x 0.01 x 44/28; when
\* uses_fertilizers is false or the total area is 0, the inventory has no
\* fertilizer-derived flow at all.
C24_DirectN2OFromAppliedNitrogen ==
  pc = "inventory" =>
    IF FertilizerEmissionsAdded(the_assessment)
    THEN Near(QuantityOf(lci_inventory, SubstanceN2O, "Air"),
              MulDiv(FMul(inventory_n_applied(the_assessment), 100), 44, 28))
    ELSE NoFertilizerFlow(lci_inventory)

\* urea at 100 kg/ha on 10 ha, once: 460 kg N and about 7.229 kg N2O
C24_Witness ==
  /\ pc = "inventory"
  /\ FertilizerEmissionsAdded(the_assessment)
  /\ total_area_ha(the_assessment.foods) = Fx(10)
  /\ inventory_n_applied(the_assessment) = Fx(460)
  /\ Near(QuantityOf(lci_inventory, SubstanceN2O, "Air"), 72286)

-----------------------------------------------------------------------------
(* Properties of the extended midpoints of a farm *)

\* the SO2-eq the fuel entries of the inventory add to the acidification
nox_so2_eq == fuel_fold(lci_inventory, iteration_order(lci_inventory, hash_seed), "nox")[1]

\* C23: the nitrogen on which terrestrial acidification bases its NH3 is the
\* N_applied of the inventory (rate x fraction_N x total area x applications,
\* with the inventory's fraction_N, zero when the inventory adds no fertilizer
\* emissions): per kg of production, the category is
\* 0.20 x N_applied x 17/14 x 1.88 plus the SO2-eq of the fuel.
C23_AcidificationUsesInventoryNitrogen ==
  (pc = "characterized" /\ total_production_kg(the_assessment.foods) > 0) =>
    LET nh3 == MulDiv(FMul(inventory_n_applied(the_assessment), 2000), 17, 14)
        so2_eq == FMul(nh3, 18800) + nox_so2_eq
    IN Near(midpoint_impacts["Terrestrial acidification"].value,
            FDiv(so2_eq, total_production_kg(the_assessment.foods)))

\* annual litres x 0.85 for diesel, x 0.83 for petrol, over all fuel entries
RECURSIVE metered_oil_eq(_)
metered_oil_eq(fuels) ==
  IF fuels = <<>> THEN 0
  ELSE FMul(Head(fuels).monthly_consumption * 12,
            IF Head(fuels).fuel_type = "Diesel" THEN 8500 ELSE 8300)
       + metered_oil_eq(Tail(fuels))

\* C27: with metered fuel entries, Fossil depletion before the division by the
\* kg produced is the sum over all fuel entries of the annual litres x 0.85
\* (diesel) or x 0.83 (petrol), whatever the number and the order of the
\* entries and whatever else was merged into the same inventory entry.
C27_FossilDepletionSumsAllFuel ==
  (/\ pc = "characterized"
   /\ IsSome(the_assessment.equipment_energy)
   /\ Unwrap(the_assessment.equipment_energy).fuel_consumption # <<>>
   /\ total_production_kg(the_assessment.foods) > 0) =>
    Near(midpoint_impacts["Fossil depletion"].value,
         FDiv(metered_oil_eq(Unwrap(the_assessment.equipment_energy).fuel_consumption),
              total_production_kg(the_assessment.foods)))

-----------------------------------------------------------------------------
(* Properties of the pedigree score *)

\* C26: with all five axes in 1..5, calculate_overall_quality_score is
\* 1 - (sum - 5)/20: exactly 1.0 when all axes are 1, exactly 0.0 when all are
\* 5, within [0, 1] otherwise, and strictly smaller once any single axis is
\* raised by one with the others fixed.
C26_QualityScoreLinearAndDecreasing ==
  (best.called /\ best.function = "calculate_overall_quality_score") =>
    LET p == best.pedigree
        sum == SumOver(p, PedigreeFields)
    IN /\ best.result * 20 = 20 * SCALE - (sum - 5) * SCALE
       /\ (\A f \in PedigreeFields : p[f] = 1) => best.result = SCALE
       /\ (\A f \in PedigreeFields : p[f] = 5) => best.result = 0
       /\ best.result >= 0 /\ best.result <= SCALE
       /\ \A f \in PedigreeFields :
            p[f] < 5 =>
              calculate_overall_quality_score([p EXCEPT ![f] = @ + 1]) < best.result

\* a score between the extremes, one axis of which can still be raised
C26_Witness ==
  /\ best.called /\ best.function = "calculate_overall_quality_score"
  /\ best.pedigree = PedigreeScore(2, 3, 1, 5, 4)
  /\ best.result = 5000


-----------------------------------------------------------------------------
(* Properties of the single score's uncertainty range *)

\* C28: the uncertainty range (lower, upper) of the production single score
\* satisfies 0 <= lower <= value <= upper <= 1 for every raw score and every
\* endpoint uncertainty, raw scores far above the threshold of 2 included.
C28_ScoreRangeBracketsValue ==
  (best.called /\ best.function = "calculate_enhanced_single_score") =>
    LET lower == best.result.uncertainty_range[1]
        upper == best.result.uncertainty_range[2]
    IN /\ 0 <= lower
       /\ lower <= best.result.value
       /\ best.result.value <= upper
       /\ upper <= MILLION


-----------------------------------------------------------------------------
(* Properties of the management practice adjustments *)

WithinRange(result) ==
  /\ result.uncertainty_range[1] <= result.value
  /\ result.value <= result.uncertainty_range[2]

\* C29: apply_management_practice_adjustments scales the uncertainty range of
\* each category by the same product of factors as the category's value, so
\* that a result whose value lay within its range before the adjustment lies
\* within it afterwards, for every combination of practices.
C29_RangeFollowsValue ==
  (best.called /\ best.function = "apply_management_practice_adjustments") =>
    \A c \in DOMAIN best.result :
      LET before == best.impacts[c]
          after == best.result[c]
      IN /\ \A i \in 1..2 :
              Near(after.uncertainty_range[i],
                   MulDiv(before.uncertainty_range[i], after.value, before.value))
         /\ WithinRange(before) => WithinRange(after)


-----------------------------------------------------------------------------
(* Properties of the facility adjustments *)

\* C30: the facility age 2024 - established_year is computed without an
\* underflow for every established_year, years after 2024 included, and a
\* facility established more recently never receives a larger age factor than
\* an older one: all else equal, its adjusted impact is not larger.
C30_AgeFactorNeverGrowsWithYear ==
  (best.called /\ best.function = "apply_facility_adjustments"
     /\ IsSome(best.facility.established_year)) =>
    /\ ~age_subtraction_overflows(best.facility.established_year)
    /\ ~best.panicked
    /\ \A older \in EstablishedYears :
         older < Unwrap(best.facility.established_year) =>
           best.result <=
             apply_facility_adjustments(Fx(100),
               [best.facility EXCEPT !.established_year = Some(older)],
               MillOperations, best.category)

====
